---- MODULE Spec2Model ----
(***************************************************************************)
(* A model of the spectral raytracer's render coordinator (main.rs:        *)
(* dispatch_render, render, apply_shader2), of its progressive image       *)
(* accumulator (custom_image.rs) and of the Spectrum data type             *)
(* (spectrum.rs).                                                          *)
(*                                                                         *)
(* Three specifications share the module:                                  *)
(*   SpecRender    the UI thread, the render thread and the worker pool    *)
(*                 of one render, interleaved step by step;                *)
(*   SpecImage     calls of CustomImage::blend_pixel / blend_row;          *)
(*   SpecSpectrum  calls of Spectrum::resample and of the SPD operators.   *)
(* Each specification leaves the variables of the other two untouched.     *)
(***************************************************************************)
EXTENDS Integers, Sequences, FiniteSets, TLC

(***************************************************************************)
(* Bounds of the model (not program constants).                            *)
(***************************************************************************)
MaxWidth == 2
MaxHeight == 2
MaxFrames == 2
MaxThreads == 2
MaxAborts == 1
MaxImgWidth == 2
MaxImgHeight == 2
MaxCalls == 1
FracUnit == 4

VARIABLES
    \* ---- App / UIFields (main.rs) ----
    ui_values,              \* width, height, nbr_of_iterations, nbr_of_threads
    currently_rendering,    \* Arc<Mutex<bool>>
    actions,                \* Arc<Mutex<Vec<AppActions>>>
    app_to_render_channel,  \* Option<Sender<AppToRenderMessages>>: "None" | "Some"
    ui_crashed,             \* the UI thread has panicked
    \* ---- the control channel UI -> render thread ----
    abort_queue,            \* AbortRender messages sent and not yet received
    receiver_alive,         \* the render thread still owns the Receiver
    \* ---- the render thread (App::render) ----
    render_pc,              \* position of the render thread
    frame_number,           \* loop variable of render's for loop
    image_float,            \* per pixel, the blends applied to it so far
    \* ---- one frame (App::apply_shader2) ----
    next_y,                 \* loop variable of the submitting for loop
    done_rows,              \* rows received so far
    row_channel,            \* mpsc channel of (y, row) of the current frame
    pool_queue,             \* jobs handed to the ThreadPool and not yet started
    pool_running,           \* jobs a worker thread is executing
    \* ---- history (not program state) ----
    emitted,                \* every AppAction the render thread has pushed, in order
    submitted,              \* set of <<frame, y>> ever handed to the pool
    received,               \* set of <<frame, y>> ever received by the coordinator
    abort_log,              \* what the render had done when AbortRender was first sent
    \* ---- SpecImage: a CustomImage and the last call made on it ----
    image,                  \* CustomImage {width, height, data}
    data_before,            \* image.data as it was before the last call
    img_call,               \* the last call: its name and arguments
    img_result,             \* what the last call returned: "Ok" | "Err" | "Panic"
    img_calls,              \* calls made so far
    \* ---- SpecSpectrum: a Spectrum and the last call made on it ----
    spectrum,               \* Spectrum {nbr_of_samples, intensities, spectrum_type}
    spectrum_before,        \* spectrum as it was before the last call
    sp_call,                \* the last call: its name and arguments
    sp_output,              \* the Spectrum the last call returned (binary * and /)
    sp_result,              \* how the last call ended: "Ok" | "Panic"
    sp_calls,               \* calls made so far
    \* ---- SpecFunctions: one call of a free-standing function ----
    fn_call,                \* the call: its name and arguments
    fn_result,              \* what it returned, or that it panicked
    \* ---- SpecShader: one ray submitted to a scene ----
    sh_uniforms,            \* RaytracingUniforms: aabbs, lights, camera
    sh_call,                \* the call: its name and arguments
    sh_result,              \* the Ray after submit_ray and what was done on the way
    \* ---- SpecScene: the scene the UI edits and the render made from it ----
    spectra,                \* ui_values.spectra: Vec<Rc<RefCell<UISpectrum>>>
    selected_spectrum,      \* ui_values.selected_spectrum: Option<UISelectedSpectrum>
    ui_objects,             \* ui_values.ui_objects; an Rc to a spectrum is its id
    ui_lights,              \* ui_values.ui_lights
    ui_scene,               \* spectrum_number_of_samples, nbr_of_iterations, ui_camera
    id_counter,             \* COUNTER of get_id
    scene_render,           \* the render thread spawned by dispatch_render
    scene_call,             \* the last UI action and how it ended (history)
    scene_edits             \* UI actions made so far (history)

renderVars == << ui_values, currently_rendering, actions, app_to_render_channel,
                 ui_crashed, abort_queue, receiver_alive, render_pc, frame_number,
                 image_float, next_y, done_rows, row_channel, pool_queue,
                 pool_running, emitted, submitted, received, abort_log >>

imageVars == << image, data_before, img_call, img_result, img_calls >>

spectrumVars == << spectrum, spectrum_before, sp_call, sp_output, sp_result, sp_calls >>

functionVars == << fn_call, fn_result >>

shaderVars == << sh_uniforms, sh_call, sh_result >>

sceneVars == << spectra, selected_spectrum, ui_objects, ui_lights, ui_scene,
                id_counter, scene_render, scene_call, scene_edits >>

vars == << renderVars, imageVars, spectrumVars, functionVars, shaderVars, sceneVars >>

\* What each specification leaves alone.
notRenderVars == << imageVars, spectrumVars, functionVars, shaderVars, sceneVars >>
notImageVars == << renderVars, spectrumVars, functionVars, shaderVars, sceneVars >>
notSpectrumVars == << renderVars, imageVars, functionVars, shaderVars, sceneVars >>
notFunctionVars == << renderVars, imageVars, spectrumVars, shaderVars, sceneVars >>
notShaderVars == << renderVars, imageVars, spectrumVars, functionVars, sceneVars >>
notSceneVars == << renderVars, imageVars, spectrumVars, functionVars, shaderVars >>

(***************************************************************************)
(* AppActions (main.rs:1398) and helper values.                            *)
(***************************************************************************)
FrameUpdate(f) == [tag |-> "FrameUpdate", arg |-> f]
RenderingProgressUpdate(f) == [tag |-> "RenderingProgressUpdate", arg |-> f]
TrueTimeUpdate == [tag |-> "TrueTimeUpdate", arg |-> 0]
DestroySender == [tag |-> "DestroySender", arg |-> 0]

NoAbort == [sent |-> 0, checks |-> 0, frames_done |-> 0, begun |-> FALSE]

Rows == 0 .. (ui_values.height - 1)
Cols == 0 .. (ui_values.width - 1)

\* CustomImage::new as the render sees it: no pixel has been blended yet.
NewImage(width, height) ==
    [y \in 0 .. (height - 1) |-> [x \in 0 .. (width - 1) |-> << >>]]

Range(q) == {q[i] : i \in 1 .. Len(q)}

\* list[index] of a Vec
At(list, index) == list[index + 1]

\* Vec::remove(index)
Remove(list, index) == [k \in 1 .. Len(list) - 1 |-> IF k <= index THEN list[k] ELSE list[k + 1]]

\* Vec::insert(index, element)
Insert(list, index, element) ==
    [k \in 1 .. Len(list) + 1 |->
        IF k <= index THEN list[k] ELSE IF k = index + 1 THEN element ELSE list[k - 1]]

FramesPublished == Cardinality({i \in 1 .. Len(emitted) : emitted[i].tag = "FrameUpdate"})

\* Frames whose apply_shader2 call has returned.
FramesCompleted == IF render_pc = "publish" THEN FramesPublished + 1 ELSE FramesPublished

\* try_recv calls (main.rs:1262) the render thread has executed.
ChecksDone ==
    IF render_pc \in {"submit", "collect", "publish", "check"} THEN frame_number
    ELSE FramesPublished

\* The image variables of a behaviour that makes no CustomImage call.
ImageIdle ==
    /\ image = [width |-> 0, height |-> 0, data |-> << >>]
    /\ data_before = << >>
    /\ img_call = [op |-> "none", x |-> 0, y |-> 0, pixels |-> << >>, w |-> [cls |-> "fin", v |-> 0]]
    /\ img_result = "none"
    /\ img_calls = 0

NBR_OF_SAMPLES_MAX == 128

\* A placeholder where no Spectrum has been produced.
NoSpectrum ==
    [nbr_of_samples |-> 0,
     intensities |-> [i \in 0 .. NBR_OF_SAMPLES_MAX - 1 |-> 0],
     spectrum_type |-> << 0, 0 >>]

NoSpectrumCall == [op |-> "none", new_sample_amount |-> 0, rhs |-> NoSpectrum]

\* The spectrum variables of a behaviour that makes no Spectrum call.
SpectrumIdle ==
    /\ spectrum = NoSpectrum
    /\ spectrum_before = NoSpectrum
    /\ sp_call = NoSpectrumCall
    /\ sp_output = NoSpectrum
    /\ sp_result = "none"
    /\ sp_calls = 0

\* The variables of a behaviour that calls no free-standing function.
FunctionsIdle ==
    /\ fn_call = [op |-> "none"]
    /\ fn_result = [res |-> "none"]

\* The variables of a behaviour that submits no ray.
ShaderIdle ==
    /\ sh_uniforms = [aabbs |-> << >>, lights |-> << >>]
    /\ sh_call = [op |-> "none"]
    /\ sh_result = [res |-> "none"]

\* The variables of a behaviour that does not edit the scene.
SceneIdle ==
    /\ spectra = << >>
    /\ selected_spectrum = [some |-> FALSE]
    /\ ui_objects = << >>
    /\ ui_lights = << >>
    /\ ui_scene = [spectrum_number_of_samples |-> 0]
    /\ id_counter = 0
    /\ scene_render = [pc |-> "none"]
    /\ scene_call = [op |-> "none", index |-> 0, res |-> "none"]
    /\ scene_edits = 0

(***************************************************************************)
(* Exact arithmetic: an f32 or f64 value as the fraction n / d in lowest   *)
(* terms with d >= 0, without the rounding of the machine operations.      *)
(* d = 0 stands for the infinities (n = 1, n = -1) and NaN (n = 0), which  *)
(* follow IEEE 754. The zeros compare equal; -0.0 is QNegZero, which only   *)
(* a division tells apart from 0.0.                                        *)
(***************************************************************************)
Sign(n) == IF n > 0 THEN 1 ELSE IF n < 0 THEN -1 ELSE 0

Abs(n) == IF n < 0 THEN -n ELSE n

RECURSIVE Gcd(_, _)
Gcd(a, b) == IF b = 0 THEN a ELSE Gcd(b, a % b)

Frac(n, d) ==
    IF d = 0 THEN [n |-> Sign(n), d |-> 0]
    ELSE LET g == Gcd(Abs(n), Abs(d))
         IN  [n |-> (Sign(d) * n) \div g, d |-> Abs(d) \div g]

QZero == Frac(0, 1)
QOne == Frac(1, 1)
QInf == Frac(1, 0)
QNegInf == Frac(-1, 0)
QNaN == Frac(0, 0)
QNegZero == [n |-> 0, d |-> -1]

QIsNaN(a) == a.d = 0 /\ a.n = 0

QNeg(a) == CHOOSE negated \in {[x EXCEPT !.n = -x.n] : x \in {a}} : TRUE

\* The operations take their operands by value: x is the value of a and y
\* the value of b.

\* The sum over the least common denominator, which keeps the numbers small.
QAdd(a, b) ==
    CHOOSE sum \in
        {IF x.d = 0 /\ y.d = 0 THEN (IF x.n = y.n THEN x ELSE QNaN)
         ELSE IF x.d = 0 THEN x
         ELSE IF y.d = 0 THEN y
         ELSE Frac(x.n * (y.d \div Gcd(x.d, y.d)) + y.n * (x.d \div Gcd(x.d, y.d)),
                   (x.d \div Gcd(x.d, y.d)) * y.d) : x \in {a}, y \in {b}} : TRUE

QSub(a, b) == QAdd(a, QNeg(b))

\* The product, cancelled crosswise before it is multiplied out.
QMul(a, b) ==
    CHOOSE product \in
        {IF x.d = 0 \/ y.d = 0 THEN Frac(Sign(x.n) * Sign(y.n), 0)
         ELSE Frac((x.n \div Gcd(Abs(x.n), y.d)) * (y.n \div Gcd(Abs(y.n), x.d)),
                   (x.d \div Gcd(Abs(y.n), x.d)) * (y.d \div Gcd(Abs(x.n), y.d)))
         : x \in {a}, y \in {b}} : TRUE

\* a / b = a * (1 / b); 1 / 0.0 is +infinity and 1 / infinity is 0.
QDiv(a, b) ==
    CHOOSE quotient \in
        {IF QIsNaN(y) THEN QNaN
         ELSE QMul(x, IF y.n < 0 THEN [n |-> -y.d, d |-> -y.n] ELSE [n |-> y.d, d |-> y.n])
         : x \in {a}, y \in {b}} : TRUE

\* a < b; false when either is NaN.
QLess(a, b) ==
    \E x \in {a}, y \in {b} :
        IF QIsNaN(x) \/ QIsNaN(y) THEN FALSE
        ELSE IF x.d = 0 /\ y.d = 0 THEN x.n < y.n
        ELSE IF x.d = 0 THEN x.n < 0
        ELSE IF y.d = 0 THEN y.n > 0
        ELSE x.n * (y.d \div Gcd(x.d, y.d)) < y.n * (x.d \div Gcd(x.d, y.d))

\* a <= b; false when either is NaN.
QLeq(a, b) == \E x \in {a}, y \in {b} : ~QIsNaN(x) /\ ~QIsNaN(y) /\ ~QLess(y, x)

\* f32::max and f32::min: a NaN operand is ignored.
QMax(a, b) ==
    CHOOSE greater \in
        {IF QIsNaN(x) THEN y ELSE IF QIsNaN(y) THEN x ELSE IF QLess(x, y) THEN y ELSE x
         : x \in {a}, y \in {b}} : TRUE
QMin(a, b) ==
    CHOOSE smaller \in
        {IF QIsNaN(x) THEN y ELSE IF QIsNaN(y) THEN x ELSE IF QLess(y, x) THEN y ELSE x
         : x \in {a}, y \in {b}} : TRUE

QAbs(a) == CHOOSE positive \in {[x EXCEPT !.n = Abs(x.n)] : x \in {a}} : TRUE

\* UICamera::default: looking along z, y is up.
DefaultCamera == [dir |-> << QZero, QZero, QOne >>, up |-> << QZero, QOne, QZero >>]

\* The cameras of the model: the default; up parallel to the direction; up
\* the zero vector; up 5e-6 and 1e-5 off the direction.
Cameras ==
    {DefaultCamera,
     [dir |-> << QZero, QZero, QOne >>, up |-> << QZero, QZero, Frac(2, 1) >>],
     [dir |-> << QZero, QZero, QOne >>, up |-> << QZero, QZero, QZero >>],
     [dir |-> << QOne, QZero, QZero >>, up |-> << QOne, Frac(1, 200000), QZero >>],
     [dir |-> << QOne, QZero, QZero >>, up |-> << QOne, Frac(1, 100000), QZero >>]}

(***************************************************************************)
(* The UI thread.                                                          *)
(***************************************************************************)
\* App::check_render_legality: the lights, objects and spectra of this model
\* are always legal; what is left is the shared flag.
check_render_legality == ~currently_rendering

\* shader::F32_DELTA
F32_DELTA == Frac(1, 100000)

\* Vector3::cross
cross(v, w) ==
    << QSub(QMul(v[2], w[3]), QMul(v[3], w[2])),
       QSub(QMul(v[3], w[1]), QMul(v[1], w[3])),
       QSub(QMul(v[1], w[2]), QMul(v[2], w[1])) >>

\* A test for a cross product that is the zero vector exactly.
are_linear_dependent_ExactZero(vec1, vec2) ==
    cross(vec1, vec2) = << QZero, QZero, QZero >>

are_linear_dependent(vec1, vec2) ==
    /\ QLess(QAbs(cross(vec1, vec2)[1]), F32_DELTA)
    /\ QLess(QAbs(cross(vec1, vec2)[2]), F32_DELTA)
    /\ QLess(QAbs(cross(vec1, vec2)[3]), F32_DELTA)

\* Camera::from(&self.ui_values.ui_camera): the vectors are taken as they are.
Camera_from(ui_camera) == [direction |-> ui_camera.dir, up |-> ui_camera.up]

\* App::dispatch_render, called by the start button. The model follows one
\* render from its dispatch to the return of its thread. assert!(!dependent)
\* panics on the UI thread before the image, the channel and the render
\* thread are made.
DispatchRender ==
    /\ ~ui_crashed
    /\ render_pc = "none"
    /\ check_render_legality
    /\ IF are_linear_dependent(Camera_from(ui_values.ui_camera).direction,
                               Camera_from(ui_values.ui_camera).up)
       THEN /\ ui_crashed' = TRUE
            /\ UNCHANGED << image_float, app_to_render_channel, receiver_alive,
                            abort_queue, render_pc >>
       ELSE /\ image_float' = NewImage(ui_values.width, ui_values.height)
            /\ app_to_render_channel' = "Some"
            /\ receiver_alive' = TRUE
            /\ abort_queue' = 0
            /\ render_pc' = "begin"
            /\ UNCHANGED ui_crashed
    /\ UNCHANGED notRenderVars
    /\ UNCHANGED << ui_values, currently_rendering, actions, frame_number,
                    next_y, done_rows, row_channel, pool_queue, pool_running,
                    emitted, submitted, received, abort_log >>

\* App::display_abort_button, clicked: send(AbortRender).unwrap(). The send
\* fails, and the unwrap panics, once the render thread has dropped its Receiver.
ClickAbort ==
    /\ ~ui_crashed
    /\ app_to_render_channel = "Some"
    /\ abort_log.sent < MaxAborts
    /\ IF receiver_alive
       THEN /\ abort_queue' = abort_queue + 1
            /\ abort_log' =
                 IF abort_log.sent = 0
                 THEN [sent |-> 1, checks |-> ChecksDone, frames_done |-> FramesCompleted,
                       begun |-> \E y \in Rows : << FramesCompleted, y >> \in submitted]
                 ELSE [abort_log EXCEPT !.sent = @ + 1]
            /\ UNCHANGED ui_crashed
       ELSE /\ ui_crashed' = TRUE
            /\ UNCHANGED << abort_queue, abort_log >>
    /\ UNCHANGED notRenderVars
    /\ UNCHANGED << ui_values, currently_rendering, actions, app_to_render_channel,
                    receiver_alive, render_pc, frame_number, image_float, next_y,
                    done_rows, row_channel, pool_queue, pool_running, emitted,
                    submitted, received >>

\* The tail of App::update: take the shared action list and handle its actions.
UiUpdate ==
    /\ ~ui_crashed
    /\ actions # << >>
    /\ actions' = << >>
    /\ app_to_render_channel' =
         IF \E i \in 1 .. Len(actions) : actions[i].tag = "DestroySender"
         THEN "None" ELSE app_to_render_channel
    /\ UNCHANGED notRenderVars
    /\ UNCHANGED << ui_values, currently_rendering, ui_crashed, abort_queue,
                    receiver_alive, render_pc, frame_number, image_float, next_y,
                    done_rows, row_channel, pool_queue, pool_running, emitted,
                    submitted, received, abort_log >>

(***************************************************************************)
(* The render thread: App::render and, inlined, App::apply_shader2.        *)
(***************************************************************************)
\* Head of render's for loop: run apply_shader2 for frame f (a fresh row
\* channel), or leave the loop when f reaches nbr_of_iterations.
LoopOrFinish(f) ==
    IF f < ui_values.nbr_of_iterations
    THEN /\ frame_number' = f
         /\ next_y' = 0
         /\ done_rows' = 0
         /\ row_channel' = << >>
         /\ render_pc' = "submit"
    ELSE /\ render_pc' = "finish"
         /\ UNCHANGED << frame_number, next_y, done_rows, row_channel >>

RenderBegin ==
    /\ render_pc = "begin"
    /\ currently_rendering' = TRUE
    /\ LoopOrFinish(0)
    /\ UNCHANGED notRenderVars
    /\ UNCHANGED << ui_values, actions, app_to_render_channel, ui_crashed, abort_queue,
                    receiver_alive, image_float, pool_queue, pool_running, emitted,
                    submitted, received, abort_log >>

\* apply_shader2, one turn of `for y in 0..height`: thread_pool.execute.
SubmitRow ==
    /\ render_pc = "submit"
    /\ next_y < ui_values.height
    /\ pool_queue' = Append(pool_queue, [frame |-> frame_number, y |-> next_y])
    /\ submitted' = submitted \cup {<< frame_number, next_y >>}
    /\ next_y' = next_y + 1
    /\ UNCHANGED notRenderVars
    /\ UNCHANGED << ui_values, currently_rendering, actions, app_to_render_channel,
                    ui_crashed, abort_queue, receiver_alive, render_pc, frame_number,
                    image_float, done_rows, row_channel, pool_running, emitted,
                    received, abort_log >>

SubmitDone ==
    /\ render_pc = "submit"
    /\ ~(next_y < ui_values.height)
    /\ render_pc' = "collect"
    /\ UNCHANGED notRenderVars
    /\ UNCHANGED << ui_values, currently_rendering, actions, app_to_render_channel,
                    ui_crashed, abort_queue, receiver_alive, frame_number, image_float,
                    next_y, done_rows, row_channel, pool_queue, pool_running, emitted,
                    submitted, received, abort_log >>

\* Sender handles of the row channel the coordinator itself holds while it
\* receives: channel_sender stays in scope until apply_shader2 returns.
CoordinatorSenders == 1

\* Sender handles alive: the coordinator's and one clone per job of this frame
\* that has not ended.
LiveSenders ==
    CoordinatorSenders
    + Cardinality({j \in pool_running \cup Range(pool_queue) : j.frame = frame_number})

\* A coordinator that stops waiting one row early.
RowsToCollect_OneShort == ui_values.height - 1

\* The bound of `while done_rows < height`.
RowsToCollect == ui_values.height

\* A coordinator that blends only the first pixel of a received row.
BlendRowOfFrame_FirstPixelOnly(img, y, task_frame, frame_id) ==
    [img EXCEPT ![y] =
        [x \in DOMAIN img[y] |->
            IF x = 0
            THEN Append(img[y][x], [task_frame |-> task_frame, weight_den |-> frame_id + 1])
            ELSE img[y][x]]]

\* blend_pixel on every pixel of row y, with ratio 1 / (frame_id + 1); the row
\* was computed under the uniforms of frame task_frame.
BlendRowOfFrame(img, y, task_frame, frame_id) ==
    [img EXCEPT ![y] =
        [x \in DOMAIN img[y] |->
            Append(img[y][x], [task_frame |-> task_frame, weight_den |-> frame_id + 1])]]

\* A coordinator that takes the rows in the order of their arrival.
ReceivedRow_ByArrival(message) == done_rows

\* let (y, row) = channel_receiver.recv(): the row number the task sent.
ReceivedRow(message) == message.y

\* apply_shader2, one turn of `while done_rows < height`: the blocking recv
\* and the blending of the row it returns. recv fails only when the channel is
\* empty and every Sender is gone; with a Sender alive it blocks.
CoordinatorRecv ==
    /\ render_pc = "collect"
    /\ done_rows < RowsToCollect
    /\ IF row_channel # << >>
       THEN /\ image_float' = BlendRowOfFrame(image_float, ReceivedRow(Head(row_channel)),
                                              Head(row_channel).frame, frame_number)
            /\ received' = received \cup {<< frame_number, Head(row_channel).y >>}
            /\ row_channel' = Tail(row_channel)
            /\ done_rows' = done_rows + 1
            /\ UNCHANGED render_pc
       ELSE /\ LiveSenders = 0
            /\ render_pc' = "panicked"
            /\ UNCHANGED << image_float, received, row_channel, done_rows >>
    /\ UNCHANGED notRenderVars
    /\ UNCHANGED << ui_values, currently_rendering, actions, app_to_render_channel,
                    ui_crashed, abort_queue, receiver_alive, frame_number, next_y,
                    pool_queue, pool_running, emitted, submitted, abort_log >>

\* apply_shader2 returns.
CollectDone ==
    /\ render_pc = "collect"
    /\ ~(done_rows < RowsToCollect)
    /\ render_pc' = "publish"
    /\ UNCHANGED notRenderVars
    /\ UNCHANGED << ui_values, currently_rendering, actions, app_to_render_channel,
                    ui_crashed, abort_queue, receiver_alive, frame_number, image_float,
                    next_y, done_rows, row_channel, pool_queue, pool_running, emitted,
                    submitted, received, abort_log >>

\* render, main.rs:1254-1259.
Publish ==
    /\ render_pc = "publish"
    /\ actions' = actions \o << FrameUpdate(frame_number),
                                RenderingProgressUpdate(frame_number + 1) >>
    /\ emitted' = emitted \o << FrameUpdate(frame_number),
                                RenderingProgressUpdate(frame_number + 1) >>
    /\ render_pc' = "check"
    /\ UNCHANGED notRenderVars
    /\ UNCHANGED << ui_values, currently_rendering, app_to_render_channel, ui_crashed,
                    abort_queue, receiver_alive, frame_number, image_float, next_y,
                    done_rows, row_channel, pool_queue, pool_running, submitted,
                    received, abort_log >>

\* A render loop that never looks at the control channel.
TryRecvIsAbort_Never == FALSE

\* receiver.try_recv() returns Ok(AbortRender).
TryRecvIsAbort == abort_queue > 0

\* render, main.rs:1262-1268, and the step of the for loop.
CheckAbort ==
    /\ render_pc = "check"
    /\ IF TryRecvIsAbort
       THEN /\ abort_queue' = abort_queue - 1
            /\ render_pc' = "finish"
            /\ UNCHANGED << frame_number, next_y, done_rows, row_channel >>
       ELSE /\ LoopOrFinish(frame_number + 1)
            /\ UNCHANGED abort_queue
    /\ UNCHANGED notRenderVars
    /\ UNCHANGED << ui_values, currently_rendering, actions, app_to_render_channel,
                    ui_crashed, receiver_alive, image_float, pool_queue, pool_running,
                    emitted, submitted, received, abort_log >>

\* render, main.rs:1271-1274.
FinishFlag ==
    /\ render_pc = "finish"
    /\ currently_rendering' = FALSE
    /\ render_pc' = "report"
    /\ UNCHANGED notRenderVars
    /\ UNCHANGED << ui_values, actions, app_to_render_channel, ui_crashed, abort_queue,
                    receiver_alive, frame_number, image_float, next_y, done_rows,
                    row_channel, pool_queue, pool_running, emitted, submitted,
                    received, abort_log >>

\* render, main.rs:1275-1281.
FinishReport ==
    /\ render_pc = "report"
    /\ actions' = actions \o << TrueTimeUpdate, DestroySender >>
    /\ emitted' = emitted \o << TrueTimeUpdate, DestroySender >>
    /\ render_pc' = "return"
    /\ UNCHANGED notRenderVars
    /\ UNCHANGED << ui_values, currently_rendering, app_to_render_channel, ui_crashed,
                    abort_queue, receiver_alive, frame_number, image_float, next_y,
                    done_rows, row_channel, pool_queue, pool_running, submitted,
                    received, abort_log >>

\* render returns: its parameters, the Receiver among them, are dropped.
RenderReturn ==
    /\ render_pc = "return"
    /\ receiver_alive' = FALSE
    /\ render_pc' = "exited"
    /\ UNCHANGED notRenderVars
    /\ UNCHANGED << ui_values, currently_rendering, actions, app_to_render_channel,
                    ui_crashed, abort_queue, frame_number, image_float, next_y,
                    done_rows, row_channel, pool_queue, pool_running, emitted,
                    submitted, received, abort_log >>

(***************************************************************************)
(* The worker pool (threadpool::ThreadPool) and the row closure.           *)
(***************************************************************************)
\* A free worker thread takes the oldest job.
WorkerTake ==
    /\ pool_queue # << >>
    /\ Cardinality(pool_running) < ui_values.nbr_of_threads
    /\ pool_running' = pool_running \cup {Head(pool_queue)}
    /\ pool_queue' = Tail(pool_queue)
    /\ UNCHANGED notRenderVars
    /\ UNCHANGED << ui_values, currently_rendering, actions, app_to_render_channel,
                    ui_crashed, abort_queue, receiver_alive, render_pc, frame_number,
                    image_float, next_y, done_rows, row_channel, emitted, submitted,
                    received, abort_log >>

\* The Receiver of the channel the job's Sender belongs to still exists: the
\* coordinator is inside the apply_shader2 call that created it.
RowReceiverAlive(job) ==
    /\ render_pc \in {"submit", "collect"}
    /\ frame_number = job.frame

\* The closure of main.rs:1201-1217 runs to its end: the row is computed and
\* sent (the unwrap of a failed send panics, which ends the job just the same).
RowTaskSend(job) ==
    /\ job \in pool_running
    /\ pool_running' = pool_running \ {job}
    /\ row_channel' = IF RowReceiverAlive(job)
                      THEN Append(row_channel, [y |-> job.y, frame |-> job.frame])
                      ELSE row_channel
    /\ UNCHANGED notRenderVars
    /\ UNCHANGED << ui_values, currently_rendering, actions, app_to_render_channel,
                    ui_crashed, abort_queue, receiver_alive, render_pc, frame_number,
                    image_float, next_y, done_rows, pool_queue, emitted, submitted,
                    received, abort_log >>

\* The closure panics inside ray_generation_shader (an assertion or unwrap of
\* the shader code fails) before it sends; its Sender clone is dropped, and the
\* pool replaces the worker thread.
RowTaskPanic(job) ==
    /\ job \in pool_running
    /\ pool_running' = pool_running \ {job}
    /\ UNCHANGED notRenderVars
    /\ UNCHANGED << ui_values, currently_rendering, actions, app_to_render_channel,
                    ui_crashed, abort_queue, receiver_alive, render_pc, frame_number,
                    image_float, next_y, done_rows, row_channel, pool_queue, emitted,
                    submitted, received, abort_log >>

(***************************************************************************)
(* The render specification.                                               *)
(***************************************************************************)
InitRender ==
    /\ ui_values \in [width : 1 .. MaxWidth, height : 1 .. MaxHeight,
                      nbr_of_iterations : 1 .. MaxFrames,
                      nbr_of_threads : 1 .. MaxThreads, ui_camera : Cameras]
    /\ currently_rendering = FALSE
    /\ actions = << >>
    /\ app_to_render_channel = "None"
    /\ ui_crashed = FALSE
    /\ abort_queue = 0
    /\ receiver_alive = FALSE
    /\ render_pc = "none"
    /\ frame_number = 0
    /\ image_float = NewImage(0, 0)
    /\ next_y = 0
    /\ done_rows = 0
    /\ row_channel = << >>
    /\ pool_queue = << >>
    /\ pool_running = {}
    /\ emitted = << >>
    /\ submitted = {}
    /\ received = {}
    /\ abort_log = NoAbort
    /\ ImageIdle
    /\ SpectrumIdle
    /\ FunctionsIdle
    /\ ShaderIdle
    /\ SceneIdle

UiThread == DispatchRender \/ ClickAbort \/ UiUpdate

RenderThread ==
    \/ RenderBegin
    \/ SubmitRow
    \/ SubmitDone
    \/ CoordinatorRecv
    \/ CollectDone
    \/ Publish
    \/ CheckAbort
    \/ FinishFlag
    \/ FinishReport
    \/ RenderReturn

Workers ==
    \/ WorkerTake
    \/ \E job \in pool_running : RowTaskSend(job)
    \/ \E job \in pool_running : RowTaskPanic(job)

NextRender == UiThread \/ RenderThread \/ Workers

SpecRender == InitRender /\ [][NextRender]_vars

\* The operating system schedules every thread that can run: the render
\* thread and the pool's workers keep taking steps. Whether a job ends by
\* sending or by panicking is not the scheduler's choice.
FairSpecRender ==
    /\ SpecRender
    /\ WF_vars(RenderThread)
    /\ WF_vars(Workers)

(***************************************************************************)
(* Claims about the render coordinator.                                    *)
(***************************************************************************)
LiveJobsOfFrame ==
    {j \in pool_running \cup Range(pool_queue) : j.frame = frame_number}

\* The coordinator waits in recv for a row that no job will ever send.
CoordinatorStuck ==
    /\ render_pc = "collect"
    /\ done_rows < RowsToCollect
    /\ row_channel = << >>
    /\ LiveJobsOfFrame = {}

\* C1: when a row task has panicked before sending its row, the blocking
\* receive does not hang: whenever the coordinator waits for a row that no
\* live job will send, its recv step can be taken (recv returns the error and
\* the "terminated prematurely" panic fires).
C1_RecvNeverHangs == CoordinatorStuck => ENABLED CoordinatorRecv

EndOfStreamDelivered == \E i \in 1 .. Len(emitted) : emitted[i] = DestroySender

\* C2 as claimed: if AbortRender is sent at a moment when frame k has
\* completed (and frame k+1 has not begun), no row task of frame k+1 is ever
\* handed to the worker pool.
C2_AbortAfterFrameStopsNext ==
    (abort_log.sent > 0 /\ abort_log.frames_done >= 1 /\ ~abort_log.begun)
        => \A y \in Rows : << abort_log.frames_done, y >> \notin submitted

\* C2 as amended: if AbortRender is sent before the render thread runs the
\* try_recv that follows frame k (abort_log.checks <= k), no row task of
\* frame k+1 is ever handed to the worker pool.
C2_AbortBeforeCheckStopsNext ==
    abort_log.sent > 0 => \A job \in submitted : job[1] <= abort_log.checks

\* An abort sent before the check after frame k cut the render short.
C2_Witness ==
    /\ abort_log.sent > 0
    /\ render_pc = "exited"
    /\ FramesPublished = abort_log.checks + 1
    /\ FramesPublished < ui_values.nbr_of_iterations

\* C3 (exit paths): once render has returned, currently_rendering is false and
\* the last two actions it pushed are one TrueTimeUpdate and one DestroySender,
\* each pushed exactly once.
C3_ExitBookkeeping ==
    render_pc = "exited" =>
        /\ ~currently_rendering
        /\ Len(emitted) >= 2
        /\ emitted[Len(emitted) - 1] = TrueTimeUpdate
        /\ emitted[Len(emitted)] = DestroySender
        /\ Cardinality({i \in 1 .. Len(emitted) : emitted[i] = TrueTimeUpdate}) = 1
        /\ Cardinality({i \in 1 .. Len(emitted) : emitted[i] = DestroySender}) = 1

\* C3: once an abort has been sent, eventually currently_rendering is false
\* and the end-of-stream action (DestroySender) has been delivered.
C3_AbortLeadsToFinished ==
    (abort_log.sent > 0) ~> (~currently_rendering /\ EndOfStreamDelivered)

\* C4: no row task of frame k+1 is submitted before all `height` rows of
\* frame k have been received, and every row is blended with the weight
\* 1 / (frame + 1) of the frame it was computed for.
C4_FrameBarrier ==
    /\ \A job \in submitted :
         job[1] >= 1 => \A y \in Rows : << job[1] - 1, y >> \in received
    /\ \A y \in DOMAIN image_float : \A x \in DOMAIN image_float[y] :
         \A i \in 1 .. Len(image_float[y][x]) :
            image_float[y][x][i].weight_den = image_float[y][x][i].task_frame + 1

\* A second frame has been blended over the first.
C4_Witness ==
    \E y \in DOMAIN image_float : \E x \in DOMAIN image_float[y] :
        /\ Len(image_float[y][x]) = 2
        /\ \A yy \in Rows : << 0, yy >> \in received

\* The blends a pixel has received are those of the frames 0 .. k, one each
\* and in this order.
BlendedOncePerFrame(history, k) ==
    /\ Len(history) = k + 1
    /\ \A j \in 1 .. Len(history) : history[j].task_frame = j - 1

\* C17: when FrameUpdate(k) is emitted every pixel has been blended exactly
\* k + 1 times, once for each of the frames 0 .. k, and every row of each of
\* these frames has been submitted and received; no partially blended frame
\* is published.
C17_PublishedFramesComplete ==
    (render_pc \in {"publish", "check"}) =>
        /\ \A y \in Rows : \A x \in Cols :
              BlendedOncePerFrame(image_float[y][x], frame_number)
        /\ \A f \in 0 .. frame_number : \A y \in Rows :
              << f, y >> \in submitted /\ << f, y >> \in received
        /\ done_rows = ui_values.height
        /\ row_channel = << >>
        /\ render_pc = "check" =>
              emitted[Len(emitted) - 1] = FrameUpdate(frame_number)

\* FrameUpdate(1) has just been emitted for an image of 2 x 2 pixels.
C17_Witness ==
    /\ render_pc = "check"
    /\ frame_number = 1
    /\ ui_values.width = 2
    /\ ui_values.height = 2
    /\ emitted[Len(emitted) - 1] = FrameUpdate(1)
    /\ Len(image_float[1][1]) = 2

\* Component i of direction x up of the camera the render was requested with.
CameraCross(i) ==
    LET d == ui_values.ui_camera.dir
        u == ui_values.ui_camera.up
        j == (i % 3) + 1
        k == (j % 3) + 1
    IN  QSub(QMul(d[j], u[k]), QMul(d[k], u[j]))

CameraDependent == \A i \in 1 .. 3 : QLess(QAbs(CameraCross(i)), Frac(1, 100000))

\* C13: with a camera whose direction and up vector are linearly dependent
\* (every component of their cross product is below 1e-5 in absolute value)
\* no render thread is ever spawned, no abort channel installed,
\* currently_rendering stays false and no action is ever emitted.
C13_DependentCameraNoRender ==
    CameraDependent =>
        /\ render_pc = "none"
        /\ app_to_render_channel = "None"
        /\ ~receiver_alive
        /\ ~currently_rendering
        /\ emitted = << >>
        /\ actions = << >>
        /\ submitted = {}

\* dispatch_render has been called with an up vector 5e-6 off the direction
\* and has panicked.
C13_Witness ==
    /\ ui_values.ui_camera.up = << QOne, Frac(1, 200000), QZero >>
    /\ CameraDependent
    /\ ui_crashed
    /\ render_pc = "none"

(***************************************************************************)
(* f32 arithmetic. A finite value is a whole number of 1/FracUnit steps    *)
(* (products are rounded toward zero to that step); the infinities and NaN *)
(* follow IEEE 754. Signed zeros compare equal and are not told apart.     *)
(***************************************************************************)
Fin(v) == [cls |-> "fin", v |-> v]
PosInf == [cls |-> "inf", v |-> 1]
NegInf == [cls |-> "inf", v |-> -1]
NaN == [cls |-> "nan", v |-> 0]
Zero == Fin(0)
One == Fin(FracUnit)

IsFinite(a) == a.cls = "fin"

TruncDiv(n, d) == IF n >= 0 THEN n \div d ELSE -((-n) \div d)

FNeg(a) == IF a.cls = "nan" THEN NaN ELSE [a EXCEPT !.v = -a.v]

FAdd(a, b) ==
    IF a.cls = "nan" \/ b.cls = "nan" THEN NaN
    ELSE IF a.cls = "inf" /\ b.cls = "inf" THEN (IF a.v = b.v THEN a ELSE NaN)
    ELSE IF a.cls = "inf" THEN a
    ELSE IF b.cls = "inf" THEN b
    ELSE Fin(a.v + b.v)

FSub(a, b) == FAdd(a, FNeg(b))

FMul(a, b) ==
    IF a.cls = "nan" \/ b.cls = "nan" THEN NaN
    ELSE IF a.cls = "inf" \/ b.cls = "inf"
         THEN (IF Sign(a.v) * Sign(b.v) = 0 THEN NaN
               ELSE IF Sign(a.v) * Sign(b.v) > 0 THEN PosInf ELSE NegInf)
    ELSE Fin(TruncDiv(a.v * b.v, FracUnit))

(***************************************************************************)
(* CustomImage (custom_image.rs). data is indexed from 0, like the Vec.    *)
(***************************************************************************)
NBR_DATA_POINTS_PER_PIXEL == 4

\* size_of::<Pixel>(): four f32 fields.
SizeOfPixel == 16

DataLen(data) == Cardinality(DOMAIN data)

Err(im) == [res |-> "Err", im |-> im]
Ok(im) == [res |-> "Ok", im |-> im]
Panic(im) == [res |-> "Panic", im |-> im]

\* CustomImage::new: width * height * 4 zeros. (The product is a u32; the
\* images of this specification are far too small for it to wrap.)
CustomImage_new(width, height) ==
    [width |-> width, height |-> height,
     data |-> [i \in 0 .. (width * height * 4 - 1) |-> Zero]]

\* A bounds check that lets the first coordinate past the end through.
OutOfBounds_OffByOne(im, x, y) == x > im.width \/ y > im.height

\* blend_pixel's bounds check.
OutOfBounds(im, x, y) == x >= im.width \/ y >= im.height

\* A blend with the two factors swapped.
Lerp_Swapped(old, new, new_weight_factor) ==
    FAdd(FMul(old, new_weight_factor), FMul(new, FSub(One, new_weight_factor)))

\* old * old_factor + new * new_weight_factor, with old_factor = 1.0 - new_weight_factor.
Lerp(old, new, new_weight_factor) ==
    FAdd(FMul(old, FSub(One, new_weight_factor)), FMul(new, new_weight_factor))

\* CustomImage::blend_pixel. An index past the end of data panics.
blend_pixel(im, x, y, pixel, new_weight_factor) ==
    LET pixel_size == NBR_DATA_POINTS_PER_PIXEL
        row_length == pixel_size * im.width
        index == y * row_length + x * pixel_size
    IN  IF row_length * im.height # DataLen(im.data) THEN Panic(im)
        ELSE IF OutOfBounds(im, x, y) THEN Err(im)
        ELSE IF index + 3 >= DataLen(im.data) THEN Panic(im)
        ELSE Ok([im EXCEPT !.data =
                    [i \in DOMAIN im.data |->
                        IF i = index THEN Lerp(im.data[i], pixel.r, new_weight_factor)
                        ELSE IF i = index + 1 THEN Lerp(im.data[i], pixel.g, new_weight_factor)
                        ELSE IF i = index + 2 THEN Lerp(im.data[i], pixel.b, new_weight_factor)
                        ELSE IF i = index + 3 THEN Lerp(im.data[i], pixel.a, new_weight_factor)
                        ELSE im.data[i]]])

\* The loop `for x in 0..row_length` of blend_row: &pixels[x] panics when x
\* is past the end of the slice; an Err of blend_pixel is returned by `?`.
RECURSIVE BlendRowLoop(_, _, _, _, _, _)
BlendRowLoop(im, pixels, row_number, new_weight_factor, x, row_length) ==
    IF x >= row_length THEN Ok(im)
    ELSE IF x >= Len(pixels) THEN Panic(im)
    ELSE LET r == blend_pixel(im, x, row_number, pixels[x + 1], new_weight_factor)
         IN  IF r.res # "Ok" THEN r
             ELSE BlendRowLoop(r.im, pixels, row_number, new_weight_factor, x + 1,
                               row_length)

\* CustomImage::blend_row.
blend_row(im, pixels, row_number, new_weight_factor) ==
    IF Len(pixels) # im.width THEN Err(im)
    ELSE IF row_number >= im.height THEN Err(im)
    ELSE LET pixel_size == SizeOfPixel
             row_length == pixel_size * im.width
         IN  BlendRowLoop(im, pixels, row_number, new_weight_factor, 0, row_length)

(***************************************************************************)
(* The image specification: a new image on which every pixel has been      *)
(* blended once to one value, then calls of blend_pixel and blend_row with *)
(* arguments inside and outside bounds.                                    *)
(***************************************************************************)
PixelInputs ==
    << [r |-> One, g |-> Fin(2), b |-> Zero, a |-> One],
       [r |-> Fin(3 * FracUnit), g |-> Fin(-FracUnit), b |-> Fin(1), a |-> One],
       [r |-> PosInf, g |-> NaN, b |-> NegInf, a |-> One] >>

WeightInputs == {Zero, One, Fin(FracUnit \div 2)}

FillInputs == {Zero, Fin(FracUnit + 1), PosInf, NaN}

\* Rows of n pixels: the pixel inputs in turn, starting at the k-th.
RowInput(n, k) == [i \in 1 .. n |-> PixelInputs[((i + k) % Len(PixelInputs)) + 1]]

NoCall == [op |-> "none", x |-> 0, y |-> 0, pixels |-> << >>, w |-> Zero]

\* The render variables of a behaviour in which nothing is rendered.
RenderIdle ==
    /\ ui_values = [width |-> 1, height |-> 1, nbr_of_iterations |-> 1,
                    nbr_of_threads |-> 1, ui_camera |-> DefaultCamera]
    /\ currently_rendering = FALSE
    /\ actions = << >>
    /\ app_to_render_channel = "None"
    /\ ui_crashed = FALSE
    /\ abort_queue = 0
    /\ receiver_alive = FALSE
    /\ render_pc = "none"
    /\ frame_number = 0
    /\ image_float = NewImage(0, 0)
    /\ next_y = 0
    /\ done_rows = 0
    /\ row_channel = << >>
    /\ pool_queue = << >>
    /\ pool_running = {}
    /\ emitted = << >>
    /\ submitted = {}
    /\ received = {}
    /\ abort_log = NoAbort

\* blend_pixel with weight 1.0 and the pixel (fill, fill, fill, fill) on the
\* pixels n, n+1, ... of im, row by row.
RECURSIVE FillFrom(_, _, _)
FillFrom(im, fill, n) ==
    IF n >= im.width * im.height THEN im
    ELSE FillFrom(blend_pixel(im, n % im.width, n \div im.width,
                              [r |-> fill, g |-> fill, b |-> fill, a |-> fill], One).im,
                  fill, n + 1)

InitImage ==
    /\ \E width \in 0 .. MaxImgWidth, height \in 0 .. MaxImgHeight, fill \in FillInputs :
         image = FillFrom(CustomImage_new(width, height), fill, 0)
    /\ data_before = image.data
    /\ img_call = NoCall
    /\ img_result = "none"
    /\ img_calls = 0
    /\ RenderIdle
    /\ SpectrumIdle
    /\ FunctionsIdle
    /\ ShaderIdle
    /\ SceneIdle

CallBlendPixel ==
    /\ img_calls < MaxCalls
    /\ img_result # "Panic"
    /\ \E x \in 0 .. image.width, y \in 0 .. image.height,
          p \in 1 .. Len(PixelInputs), w \in WeightInputs :
          LET r == blend_pixel(image, x, y, PixelInputs[p], w)
          IN  /\ image' = r.im
              /\ img_result' = r.res
              /\ img_call' = [op |-> "blend_pixel", x |-> x, y |-> y,
                              pixels |-> << PixelInputs[p] >>, w |-> w]
    /\ data_before' = image.data
    /\ img_calls' = img_calls + 1
    /\ UNCHANGED notImageVars

CallBlendRow ==
    /\ img_calls < MaxCalls
    /\ img_result # "Panic"
    /\ \E n \in 0 .. (image.width + 1), k \in 1 .. 2, y \in 0 .. image.height,
          w \in WeightInputs :
          LET r == blend_row(image, RowInput(n, k), y, w)
          IN  /\ image' = r.im
              /\ img_result' = r.res
              /\ img_call' = [op |-> "blend_row", x |-> 0, y |-> y,
                              pixels |-> RowInput(n, k), w |-> w]
    /\ data_before' = image.data
    /\ img_calls' = img_calls + 1
    /\ UNCHANGED notImageVars

NextImage == CallBlendPixel \/ CallBlendRow

SpecImage == InitImage /\ [][NextImage]_vars

(***************************************************************************)
(* Claims about the image accumulator.                                     *)
(***************************************************************************)
\* The image as it was before the last call.
ImageBefore == [image EXCEPT !.data = data_before]

\* Index in data of channel c (0 = r, 1 = g, 2 = b, 3 = a) of pixel (x, y).
ChannelIndex(x, y, c) == (y * image.width + x) * 4 + c

Channel(pixel, c) ==
    CASE c = 0 -> pixel.r [] c = 1 -> pixel.g [] c = 2 -> pixel.b [] c = 3 -> pixel.a

\* blend_pixel applied once to each pixel x, x+1, ..., width-1 of row y.
RECURSIVE BlendEachOnce(_, _, _, _, _)
BlendEachOnce(im, pixels, y, w, x) ==
    IF x >= im.width THEN im
    ELSE BlendEachOnce(blend_pixel(im, x, y, pixels[x + 1], w).im, pixels, y, w, x + 1)

\* C8: blend_row with pixels.len() == width and rowIndex < height returns Ok
\* and has exactly the effect of one blend_pixel(x, rowIndex, pixels[x], weight)
\* for each x in 0..width.
C8_BlendRowBlendsRowOnce ==
    (/\ img_call.op = "blend_row"
     /\ Len(img_call.pixels) = image.width
     /\ img_call.y < image.height)
        => /\ img_result = "Ok"
           /\ image = BlendEachOnce(ImageBefore, img_call.pixels, img_call.y,
                                    img_call.w, 0)

\* C9: blend_pixel with x >= width or y >= height returns an error and leaves
\* the buffer unchanged; with x < width and y < height it returns Ok and
\* leaves every value outside the four channels of pixel (x, y) unchanged.
C9_BlendPixelBounds ==
    img_call.op = "blend_pixel" =>
        IF img_call.x >= image.width \/ img_call.y >= image.height
        THEN /\ img_result = "Err"
             /\ image.data = data_before
        ELSE /\ img_result = "Ok"
             /\ DOMAIN image.data = DOMAIN data_before
             /\ \A i \in DOMAIN image.data :
                   i \notin {ChannelIndex(img_call.x, img_call.y, c) : c \in 0 .. 3}
                       => image.data[i] = data_before[i]

\* An in-bounds blend_pixel changed a pixel of an image that has other pixels.
C9_Witness ==
    /\ img_call.op = "blend_pixel"
    /\ img_result = "Ok"
    /\ image.width * image.height >= 2
    /\ image.data # data_before

\* C10 as claimed: whatever the prior value, weight 1.0 leaves the pixel equal
\* to the new color and weight 0.0 leaves it equal to its prior value.
C10_WeightOneZeroExact ==
    (img_call.op = "blend_pixel" /\ img_result = "Ok") =>
        \A c \in 0 .. 3 :
            LET i == ChannelIndex(img_call.x, img_call.y, c)
            IN  /\ img_call.w = One => image.data[i] = Channel(img_call.pixels[1], c)
                /\ img_call.w = Zero => image.data[i] = data_before[i]

\* C10 as amended: weight 1.0 leaves a channel equal to the new color when
\* its prior value is finite; weight 0.0 leaves a channel equal to its prior
\* value when the new color's value is finite.
C10_WeightOneZeroFinite ==
    (img_call.op = "blend_pixel" /\ img_result = "Ok") =>
        \A c \in 0 .. 3 :
            LET i == ChannelIndex(img_call.x, img_call.y, c)
            IN  /\ (img_call.w = One /\ IsFinite(data_before[i]))
                      => image.data[i] = Channel(img_call.pixels[1], c)
                /\ (img_call.w = Zero /\ IsFinite(Channel(img_call.pixels[1], c)))
                      => image.data[i] = data_before[i]

\* Weight 1.0 replaced a finite, non-zero prior value by a different new one.
C10_Witness ==
    /\ img_call.op = "blend_pixel"
    /\ img_result = "Ok"
    /\ img_call.w = One
    /\ data_before[ChannelIndex(img_call.x, img_call.y, 0)] = Fin(FracUnit + 1)
    /\ image.data[ChannelIndex(img_call.x, img_call.y, 0)] = One

(***************************************************************************)
(* Spectrum (spectrum.rs).  intensities is the [f32; 128] array, indexed   *)
(* from 0.  Intensities are integers; an interpolation position is the     *)
(* exact fraction num/den, and an interpolated value is truncated to an    *)
(* integer where f32 would round.  The right-hand sides of the operators   *)
(* have non-zero samples, so no quotient is an f32 infinity.               *)
(***************************************************************************)
MaxSlope == 1
MaxSpectrumCalls == 1

\* Outcomes of a call on a Spectrum: s is self afterwards, out the returned
\* Spectrum.
SOk(s, out) == [res |-> "Ok", s |-> s, out |-> out]
SPanic(s) == [res |-> "Panic", s |-> s, out |-> NoSpectrum]

\* Outcomes of a helper that returns a Vec<f32>.
LOk(list) == [res |-> "Ok", list |-> list]
LPanic == [res |-> "Panic", list |-> << >>]

Spectrum_new_from_list(intensities, lowest_wavelength, highest_wavelength, nbr_of_samples) ==
    [nbr_of_samples |-> nbr_of_samples,
     intensities |-> intensities,
     spectrum_type |-> << lowest_wavelength, highest_wavelength >>]

new_singular_reflectance_factor(lowest_wavelength, highest_wavelength, nbr_of_samples, reflectance_factor) ==
    Spectrum_new_from_list([i \in 0 .. NBR_OF_SAMPLES_MAX - 1 |-> reflectance_factor],
                           lowest_wavelength, highest_wavelength, nbr_of_samples)

\* Spectrum::new: the private constructor binary * and / return through.
Spectrum_new(intensities, spectrum_type, nbr_of_samples) ==
    IF nbr_of_samples % 8 # 0 \/ nbr_of_samples > NBR_OF_SAMPLES_MAX
    THEN SPanic(NoSpectrum)
    ELSE SOk(NoSpectrum, [nbr_of_samples |-> nbr_of_samples,
                          intensities |-> intensities,
                          spectrum_type |-> spectrum_type])

linear_interpolate_halved(original_values, target_length) ==
    LET original_length == Len(original_values)
    IN  IF \/ ~(original_length > 1)
           \/ ~(target_length > 1)
           \/ ~(original_length >= target_length)
           \/ ~(original_length \div 2 <= target_length)
        THEN LPanic
        ELSE LOk([k \in 1 .. target_length |->
                LET i == k - 1
                    index == (i * original_length) \div target_length
                    ratio == (i * original_length) % target_length
                IN  IF index + 1 < original_length
                    THEN TruncDiv(original_values[index + 1] * (target_length - ratio)
                                    + original_values[index + 2] * ratio,
                                  target_length)
                    ELSE original_values[index + 1]])

collapse_list_to_half(list) ==
    IF ~(Len(list) > 8) THEN LPanic
    ELSE LET half == Len(list) \div 2
             half_length == IF half % 8 # 0 THEN (half \div 8 + 1) * 8 ELSE half
         IN  linear_interpolate_halved(list, half_length)

slice_to_array_128(input) ==
    [i \in 0 .. NBR_OF_SAMPLES_MAX - 1 |-> IF i < Len(input) THEN input[i + 1] ELSE 0]

\* The while loop of the down-sampling branch.  current_nbr_of_samples is
\* Len(working_list) at every test of the loop condition.  The slice taken
\* in the body is [0..self.nbr_of_samples], which is out of range as soon as
\* working_list is shorter than self.
RECURSIVE SampleDownLoop(_, _, _)
SampleDownLoop(working_list, nbr_of_samples, new_sample_amount) ==
    IF Len(working_list) > 2 * new_sample_amount
    THEN IF nbr_of_samples > Len(working_list) THEN LPanic
         ELSE LET half == collapse_list_to_half(SubSeq(working_list, 1, nbr_of_samples))
              IN  IF half.res = "Panic" THEN LPanic
                  ELSE SampleDownLoop(half.list, nbr_of_samples, new_sample_amount)
    ELSE LOk(working_list)

\* The four assertions at the head of resample.
resample_asserts_NoMultipleOf8(s, new_sample_amount) ==
    /\ new_sample_amount > 1
    /\ new_sample_amount <= NBR_OF_SAMPLES_MAX
    /\ s.nbr_of_samples % 8 = 0

resample_asserts(s, new_sample_amount) ==
    /\ new_sample_amount > 1
    /\ new_sample_amount <= NBR_OF_SAMPLES_MAX
    /\ s.nbr_of_samples % 8 = 0
    /\ new_sample_amount % 8 = 0

resample(s, new_sample_amount) ==
    IF ~resample_asserts(s, new_sample_amount) THEN SPanic(s)
    ELSE IF new_sample_amount = s.nbr_of_samples THEN SOk(s, NoSpectrum)
    ELSE IF new_sample_amount < s.nbr_of_samples
    THEN IF s.nbr_of_samples > NBR_OF_SAMPLES_MAX THEN SPanic(s)
         ELSE
         LET first == [k \in 1 .. s.nbr_of_samples |-> s.intensities[k - 1]]
             halved == SampleDownLoop(first, s.nbr_of_samples, new_sample_amount)
             final == IF halved.res = "Panic" THEN LPanic
                      ELSE linear_interpolate_halved(halved.list, new_sample_amount)
         IN  IF final.res = "Panic" THEN SPanic(s)
             ELSE SOk([s EXCEPT !.intensities = slice_to_array_128(final.list),
                                !.nbr_of_samples = new_sample_amount], NoSpectrum)
    ELSE LET den == new_sample_amount - 1
             num(i) == i * (s.nbr_of_samples - 1)
             index_lower(i) == num(i) \div den
             index_upper(i) == index_lower(i) + 1
         IN  IF \E i \in 0 .. new_sample_amount - 1 : index_upper(i) >= NBR_OF_SAMPLES_MAX
             THEN SPanic(s)
             ELSE SOk([s EXCEPT
                    !.intensities = [i \in 0 .. NBR_OF_SAMPLES_MAX - 1 |->
                        IF i < new_sample_amount
                        THEN TruncDiv(s.intensities[index_lower(i)] * (den - (num(i) % den))
                                        + s.intensities[index_upper(i)] * (num(i) % den),
                                      den)
                        ELSE 0],
                    !.nbr_of_samples = new_sample_amount], NoSpectrum)

\* The compound assignment each operator applies to one sample.
SampleOp(op, a, b) ==
    CASE op = "+=" -> a + b
      [] op = "*=" -> a * b
      [] op = "/=" -> TruncDiv(a, b)

\* The loop "for i in 0..self.nbr_of_samples" of the four operators, applied
\* to the samples the array has.
ElementWise(op, a, b, nbr_of_samples) ==
    [i \in 0 .. NBR_OF_SAMPLES_MAX - 1 |->
        IF i < nbr_of_samples THEN SampleOp(op, a[i], b[i]) ELSE a[i]]

\* The assertions at the head of +=, *=, binary / and binary *.
operator_asserts(s, rhs) ==
    /\ s.nbr_of_samples = rhs.nbr_of_samples
    /\ s.nbr_of_samples % 8 = 0

\* AddAssign and MulAssign: self is updated in place; an index past the array
\* panics after the samples before it have been updated.
AssignOp(op, s, rhs) ==
    IF ~operator_asserts(s, rhs) THEN SPanic(s)
    ELSE LET t == [s EXCEPT !.intensities =
                       ElementWise(op, s.intensities, rhs.intensities, s.nbr_of_samples)]
         IN  IF s.nbr_of_samples > NBR_OF_SAMPLES_MAX THEN SPanic(t) ELSE SOk(t, NoSpectrum)

add_assign(s, rhs) == AssignOp("+=", s, rhs)
mul_assign(s, rhs) == AssignOp("*=", s, rhs)

\* Div and Mul: self is left alone and a new Spectrum with self's
\* spectrum_type is returned.
BinaryOp(op, s, rhs) ==
    IF ~operator_asserts(s, rhs) \/ s.nbr_of_samples > NBR_OF_SAMPLES_MAX THEN SPanic(s)
    ELSE LET new_arr == ElementWise(op, s.intensities, rhs.intensities, s.nbr_of_samples)
             made == Spectrum_new(new_arr, s.spectrum_type, s.nbr_of_samples)
         IN  IF made.res = "Panic" THEN SPanic(s) ELSE SOk(s, made.out)

div(s, rhs) == BinaryOp("/=", s, rhs)
mul(s, rhs) == BinaryOp("*=", s, rhs)

(***************************************************************************)
(* SpecSpectrum: calls on one Spectrum.                                    *)
(***************************************************************************)
\* The sample counts the UI accepts (main.rs:657).
ValidCounts == {8 * k : k \in 1 .. NBR_OF_SAMPLES_MAX \div 8}

ValidCount(n) == n > 1 /\ n <= NBR_OF_SAMPLES_MAX /\ n % 8 = 0

WavelengthRanges == {<< 380, 780 >>, << 400, 700 >>}

Ramp(n, slope) ==
    [i \in 0 .. NBR_OF_SAMPLES_MAX - 1 |-> IF i < n THEN i * slope + 1 ELSE 0]

SpectrumInputs ==
    {IF slope = 0
     THEN new_singular_reflectance_factor(r[1], r[2], n, 1)
     ELSE Spectrum_new_from_list(Ramp(n, slope), r[1], r[2], n) :
        n \in ValidCounts, slope \in 0 .. MaxSlope, r \in WavelengthRanges}

RhsInputs(s) ==
    {new_singular_reflectance_factor(r[1], r[2], n, 2) :
        n \in {s.nbr_of_samples, 8, 16}, r \in WavelengthRanges}

ResampleInputs == {0, 1, 4, 12, NBR_OF_SAMPLES_MAX + 8} \cup ValidCounts

InitSpectrum ==
    /\ spectrum \in SpectrumInputs
    /\ spectrum_before = spectrum
    /\ sp_call = NoSpectrumCall
    /\ sp_output = NoSpectrum
    /\ sp_result = "none"
    /\ sp_calls = 0
    /\ RenderIdle
    /\ ImageIdle
    /\ FunctionsIdle
    /\ ShaderIdle
    /\ SceneIdle

\* Each action makes one call on spectrum and records the call, self before
\* it, and its outcome.  A panic ends the behaviour.
CallResample ==
    \E n \in ResampleInputs :
        LET outcome == resample(spectrum, n)
        IN  /\ sp_calls < MaxSpectrumCalls
            /\ sp_result # "Panic"
            /\ sp_call' = [op |-> "resample", new_sample_amount |-> n, rhs |-> NoSpectrum]
            /\ spectrum_before' = spectrum
            /\ spectrum' = outcome.s
            /\ sp_output' = outcome.out
            /\ sp_result' = outcome.res
            /\ sp_calls' = sp_calls + 1
            /\ UNCHANGED notSpectrumVars

CallAddAssign ==
    \E rhs \in RhsInputs(spectrum) :
        LET outcome == add_assign(spectrum, rhs)
        IN  /\ sp_calls < MaxSpectrumCalls
            /\ sp_result # "Panic"
            /\ sp_call' = [op |-> "add_assign", new_sample_amount |-> 0, rhs |-> rhs]
            /\ spectrum_before' = spectrum
            /\ spectrum' = outcome.s
            /\ sp_output' = outcome.out
            /\ sp_result' = outcome.res
            /\ sp_calls' = sp_calls + 1
            /\ UNCHANGED notSpectrumVars

CallMulAssign ==
    \E rhs \in RhsInputs(spectrum) :
        LET outcome == mul_assign(spectrum, rhs)
        IN  /\ sp_calls < MaxSpectrumCalls
            /\ sp_result # "Panic"
            /\ sp_call' = [op |-> "mul_assign", new_sample_amount |-> 0, rhs |-> rhs]
            /\ spectrum_before' = spectrum
            /\ spectrum' = outcome.s
            /\ sp_output' = outcome.out
            /\ sp_result' = outcome.res
            /\ sp_calls' = sp_calls + 1
            /\ UNCHANGED notSpectrumVars

CallDiv ==
    \E rhs \in RhsInputs(spectrum) :
        LET outcome == div(spectrum, rhs)
        IN  /\ sp_calls < MaxSpectrumCalls
            /\ sp_result # "Panic"
            /\ sp_call' = [op |-> "div", new_sample_amount |-> 0, rhs |-> rhs]
            /\ spectrum_before' = spectrum
            /\ spectrum' = outcome.s
            /\ sp_output' = outcome.out
            /\ sp_result' = outcome.res
            /\ sp_calls' = sp_calls + 1
            /\ UNCHANGED notSpectrumVars

CallMul ==
    \E rhs \in RhsInputs(spectrum) :
        LET outcome == mul(spectrum, rhs)
        IN  /\ sp_calls < MaxSpectrumCalls
            /\ sp_result # "Panic"
            /\ sp_call' = [op |-> "mul", new_sample_amount |-> 0, rhs |-> rhs]
            /\ spectrum_before' = spectrum
            /\ spectrum' = outcome.s
            /\ sp_output' = outcome.out
            /\ sp_result' = outcome.res
            /\ sp_calls' = sp_calls + 1
            /\ UNCHANGED notSpectrumVars

NextSpectrum == CallResample \/ CallAddAssign \/ CallMulAssign \/ CallDiv \/ CallMul

SpecSpectrum == InitSpectrum /\ [][NextSpectrum]_vars

(***************************************************************************)
(* Claims about Spectrum.                                                  *)
(***************************************************************************)
SpectrumOperators == {"add_assign", "mul_assign", "div", "mul"}

\* C5: +=, *=, binary * and binary / applied to two spectra that differ in
\* sample count or in wavelength bounds panic; they produce a result only
\* when both the sample counts and the bounds are equal.
C5_OperatorsRequireEqualShape ==
    (/\ sp_call.op \in SpectrumOperators
     /\ \/ sp_call.rhs.nbr_of_samples # spectrum_before.nbr_of_samples
        \/ sp_call.rhs.spectrum_type # spectrum_before.spectrum_type)
        => sp_result = "Panic"

\* C6: resample(newN) on a spectrum with valid N and with valid newN completes
\* without a panic and leaves nbr_of_samples = newN; when newN = N the
\* spectrum is left identical.
C6_ResampleValidCompletes ==
    (/\ sp_call.op = "resample"
     /\ ValidCount(spectrum_before.nbr_of_samples)
     /\ ValidCount(sp_call.new_sample_amount))
        => /\ sp_result = "Ok"
           /\ spectrum.nbr_of_samples = sp_call.new_sample_amount
           /\ sp_call.new_sample_amount = spectrum_before.nbr_of_samples
                => spectrum = spectrum_before

\* C7: resample(newN) with newN <= 1, newN > 128 or newN not a multiple of 8
\* panics and leaves the sample count and every intensity as they were.
C7_ResampleRejectsInvalid ==
    (/\ sp_call.op = "resample"
     /\ \/ sp_call.new_sample_amount <= 1
        \/ sp_call.new_sample_amount > NBR_OF_SAMPLES_MAX
        \/ sp_call.new_sample_amount % 8 # 0)
        => /\ sp_result = "Panic"
           /\ spectrum.nbr_of_samples = spectrum_before.nbr_of_samples
           /\ spectrum.intensities = spectrum_before.intensities

\* resample(12) on a spectrum of 8 samples has panicked.
C7_Witness ==
    /\ sp_call.op = "resample"
    /\ sp_call.new_sample_amount = 12
    /\ spectrum_before.nbr_of_samples = 8
    /\ sp_result = "Panic"

(***************************************************************************)
(* Unsigned integers wider than the checker's: an integer is its eight     *)
(* base-256 digits, least significant first (a 64-bit usize); a u32 is the *)
(* low four.                                                               *)
(***************************************************************************)
WideDigits == 8
U32Digits == 4

\* n >= 0 as a usize.
Wide(n) == [i \in 0 .. WideDigits - 1 |-> IF i < U32Digits THEN (n \div (256 ^ i)) % 256 ELSE 0]

\* Sum of the digit products of column k, from row i on.
RECURSIVE ColumnSum(_, _, _, _)
ColumnSum(a, b, k, i) ==
    IF i > k THEN 0 ELSE a[i] * b[k - i] + ColumnSum(a, b, k, i + 1)

\* Column k of the product with the carry of the columns below it.
RECURSIVE ColumnTotal(_, _, _)
ColumnTotal(a, b, k) ==
    ColumnSum(a, b, k, 0) + (IF k = 0 THEN 0 ELSE ColumnTotal(a, b, k - 1) \div 256)

\* a * b for a, b whose product fits a usize.
WideMul(a, b) == [k \in 0 .. WideDigits - 1 |-> ColumnTotal(a, b, k) % 256]

\* `as u32`: the low 32 bits.
AsU32(a) == [i \in 0 .. WideDigits - 1 |-> IF i < U32Digits THEN a[i] ELSE 0]

\* The value does not fit a u32.
OverflowsU32(a) == \E i \in U32Digits .. WideDigits - 1 : a[i] # 0

(***************************************************************************)
(* CustomImage::new_from_data.  Of data only its length is read.  u32      *)
(* multiplication panics on overflow when the build checks overflow (the   *)
(* dev profile) and wraps when it does not (the release profile).          *)
(***************************************************************************)
Builds == {"overflow-checks", "wrapping"}

\* The u32 product a * b: its wrapped value and whether it overflowed.
MulU32(a, b) ==
    LET p == WideMul(a, b)
    IN  [value |-> AsU32(p), overflow |-> OverflowsU32(p)]

new_from_data(width, height, len, build) ==
    LET wh == MulU32(Wide(width), Wide(height))
        wh4 == MulU32(wh.value, Wide(4))
    IN  IF build = "overflow-checks" /\ (wh.overflow \/ wh4.overflow)
        THEN [res |-> "Panic"]
        ELSE IF wh4.value # AsU32(Wide(len)) THEN [res |-> "Err"]
        ELSE [res |-> "Ok", width |-> width, height |-> height, len |-> len]

\* The assert_eq! at the head of blend_pixel, in usize arithmetic:
\* NBR_DATA_POINTS_PER_PIXEL * width * height == data.len().
blend_pixel_length_assert(width, height, len) ==
    LET row_length == WideMul(Wide(NBR_DATA_POINTS_PER_PIXEL), Wide(width))
    IN  WideMul(row_length, Wide(height)) = Wide(len)

(***************************************************************************)
(* The accumulation of frames into one pixel: render calls apply_shader2   *)
(* for frame_id = 0, 1, ..., and apply_shader2 blends the frame's colour   *)
(* of the pixel into the image with ratio 1 / (frame_id + 1).              *)
(***************************************************************************)
\* A blend ratio that does not depend on the frame.
ratio_Half(frame_id) == QDiv(QOne, Frac(2, 1))

\* let ratio = 1.0 / (uniforms.frame_id + 1) as f32
ratio(frame_id) == QDiv(QOne, Frac(frame_id + 1, 1))

\* One channel of blend_pixel: data * old_factor + pixel * new_weight_factor.
blend_channel(old, new, new_weight_factor) ==
    LET old_factor == QSub(QOne, new_weight_factor)
    IN  QAdd(QMul(old, old_factor), QMul(new, new_weight_factor))

\* blend_pixel on the four floats of one pixel.
blend_pixel_exact(data, pixel, new_weight_factor) ==
    [r |-> blend_channel(data.r, pixel.r, new_weight_factor),
     g |-> blend_channel(data.g, pixel.g, new_weight_factor),
     b |-> blend_channel(data.b, pixel.b, new_weight_factor),
     a |-> blend_channel(data.a, pixel.a, new_weight_factor)]

\* The four floats of a pixel of CustomImage::new: vec![0.0; ...].
ZeroPixel == [r |-> QZero, g |-> QZero, b |-> QZero, a |-> QZero]

\* The pixel after the frames 0 .. frame_id; colours[j + 1] is (r, g, b) of
\* frame j, and a is 1.0.
RECURSIVE AccumulateFrames(_, _)
AccumulateFrames(colours, frame_id) ==
    IF frame_id < 0 THEN ZeroPixel
    ELSE blend_pixel_exact(AccumulateFrames(colours, frame_id - 1),
                           [r |-> colours[frame_id + 1][1], g |-> colours[frame_id + 1][2],
                            b |-> colours[frame_id + 1][3], a |-> QOne],
                           ratio(frame_id))

(***************************************************************************)
(* ray_aabb_intersection (shader.rs): the slab test. Points and vectors    *)
(* are triples of fractions, indexed from 1.                               *)
(***************************************************************************)
None == [some |-> FALSE]
Some(v) == [some |-> TRUE, v |-> v]

\* A slab test that never swaps t1 and t2.
NearFar_NoSwap(t1, t2, inverse_direction) == << t1, t2 >>

\* let (t_near, t_far) = if inverse_direction < 0.0 { (t2, t1) } else { (t1, t2) }
NearFar(t1, t2, inverse_direction) ==
    IF QLess(inverse_direction, QZero) THEN << t2, t1 >> ELSE << t1, t2 >>

\* The turns i, i + 1, ... of `for i in 0..3` and what follows the loop. A
\* value that is used more than once is named by a variable ranging over a
\* set of one element: inverse_direction, then (t_near, t_far), then the new
\* t_min and t_max.
RECURSIVE AabbAxes(_, _, _, _, _, _, _)
AabbAxes(ray_origin, ray_direction, point_min, point_max, i, t_min, t_max) ==
    IF i > 3
    THEN IF QLess(t_max, QZero) THEN None ELSE Some(<< t_min, t_max >>)
    ELSE CHOOSE result \in
           {IF QLeq(new.t_max, new.t_min) THEN None
            ELSE AabbAxes(ray_origin, ray_direction, point_min, point_max, i + 1,
                          new.t_min, new.t_max) :
               new \in
                 {[t_min |-> QMax(t_min, near_far[1]), t_max |-> QMin(t_max, near_far[2])] :
                     near_far \in
                       {NearFar(QMul(QSub(point_min[i], ray_origin[i]), inverse_direction),
                                QMul(QSub(point_max[i], ray_origin[i]), inverse_direction),
                                inverse_direction) :
                           inverse_direction \in {QDiv(QOne, ray_direction[i])}}}} : TRUE

ray_aabb_intersection(ray_origin, ray_direction, point_min, point_max) ==
    AabbAxes(ray_origin, ray_direction, point_min, point_max, 1, QNegInf, QInf)

(***************************************************************************)
(* Vectors (nalgebra). Every vector of this model lies along one axis, and *)
(* for such a vector sqrt(x^2 + y^2 + z^2) is |x| + |y| + |z|.             *)
(***************************************************************************)
VAdd(v, w) ==
    CHOOSE sum \in {<< QAdd(a[1], b[1]), QAdd(a[2], b[2]), QAdd(a[3], b[3]) >>
                    : a \in {v}, b \in {w}} : TRUE
VSub(v, w) ==
    CHOOSE difference \in {<< QSub(a[1], b[1]), QSub(a[2], b[2]), QSub(a[3], b[3]) >>
                           : a \in {v}, b \in {w}} : TRUE
VScale(v, q) ==
    CHOOSE scaled \in {<< QMul(a[1], b), QMul(a[2], b), QMul(a[3], b) >>
                       : a \in {v}, b \in {q}} : TRUE
VNeg(v) == CHOOSE negated \in {<< QNeg(a[1]), QNeg(a[2]), QNeg(a[3]) >> : a \in {v}} : TRUE
dot(v, w) ==
    CHOOSE product \in {QAdd(QAdd(QMul(a[1], b[1]), QMul(a[2], b[2])), QMul(a[3], b[3]))
                        : a \in {v}, b \in {w}} : TRUE
magnitude(v) == CHOOSE length \in {QAdd(QAdd(QAbs(a[1]), QAbs(a[2])), QAbs(a[3])) : a \in {v}} : TRUE
normalize(v) ==
    CHOOSE unit \in {<< QDiv(a[1], m), QDiv(a[2], m), QDiv(a[3], m) >>
                     : a \in {v}, m \in {magnitude(v)}} : TRUE

\* incident - 2.0 * normal.dot(incident) * normal
reflect_vec(incident, normal) ==
    VSub(incident, VScale(normal, QMul(Frac(2, 1), dot(normal, incident))))

(***************************************************************************)
(* Spectra in the shaders. A Spectrum is kept as the sum it was built as:  *)
(* a sequence of terms, one for each light spectrum added into it, with    *)
(* the distance whose square it was divided by, the product of the two     *)
(* cosines it was scaled with, and the boxes whose reflective spectra it   *)
(* was multiplied with. The empty sum is the spectrum of zeros.            *)
(***************************************************************************)
\* Spectrum::new_equal_size_empty_spectrum
new_equal_size_empty_spectrum == << >>

\* &light.spectrum / distance^2, then *= cos_in and *= cos_out.
AdjustedLight(light, distance, cos_in, cos_out) ==
    << [light |-> light, distance |-> distance, factor |-> QMul(cos_in, cos_out),
        via |-> << >>] >>

\* received_spectrum += &other
SpectrumAdd(received_spectrum, other) == received_spectrum \o other

\* &aabb.reflective_spectrum * &received_spectrum, for the box of index aabb.
SpectrumReflect(aabb, received_spectrum) ==
    [i \in DOMAIN received_spectrum |->
        [received_spectrum[i] EXCEPT !.via = Append(@, aabb)]]

\* Spectrum::max0: the terms are not negative.
max0(s) == s

(***************************************************************************)
(* Rays (shader.rs).                                                       *)
(***************************************************************************)
NEW_RAY_MAX_BOUNCES == 30
NEW_RAY_POSITION_OFFSET_DISTANCE == Frac(1, 100000)

\* Ray::new
Ray_new(origin, direction, max_bounces) ==
    [origin |-> origin, direction |-> normalize(direction), hit |-> FALSE,
     spectrum |-> new_equal_size_empty_spectrum, skip_hit_shader |-> FALSE,
     max_bounces |-> max_bounces, hit_distance |-> QZero, max_hit_distance |-> QInf]

\* Ray::new_shadow_ray
new_shadow_ray(origin, direction, max_hit_distance) ==
    [origin |-> origin, direction |-> direction, hit |-> FALSE,
     spectrum |-> new_equal_size_empty_spectrum, skip_hit_shader |-> TRUE,
     max_bounces |-> 2, hit_distance |-> QZero, max_hit_distance |-> max_hit_distance]

(***************************************************************************)
(* The shaders (shader.rs). uniforms.aabbs holds PlainBox boxes only.      *)
(* submit_ray and hit_shader return, next to the ray as they leave it, the *)
(* list of the submit_ray calls made, the call itself first: each with its *)
(* number id, the number of the call whose hit shader made it (0 for the   *)
(* outermost), what it was made for, the ray as it was submitted, the      *)
(* shader that ran, the box hit, the ray's hit flag and spectrum at the    *)
(* return, and the lights whose spectrum the hit shader added. As in the   *)
(* slab test, a value that is used more than once is named by a variable   *)
(* ranging over a set of one element.                                      *)
(***************************************************************************)
\* AABBType::PlainBox of intersection_shader.
intersection_shader(ray, aabb) ==
    CHOOSE result \in
      {IF QLeq(QZero, QMin(t[1], t[2])) THEN Some(QMin(t[1], t[2]))
       ELSE Some(QMax(t[1], t[2])) :
          t \in {ray_aabb_intersection(ray.origin, ray.direction, aabb.min, aabb.max).v}} : TRUE

\* One component of plain_box_normal_calculation.
NormalComponent(p, lower, upper) ==
    IF QLess(QAbs(QSub(p, lower)), F32_DELTA) THEN Frac(-1, 1)
    ELSE IF QLess(QAbs(QSub(p, upper)), F32_DELTA) THEN QOne
    ELSE QZero

plain_box_normal_calculation(aabb, intersection_point) ==
    normalize(<< NormalComponent(intersection_point[1], aabb.min[1], aabb.max[1]),
                 NormalComponent(intersection_point[2], aabb.min[2], aabb.max[2]),
                 NormalComponent(intersection_point[3], aabb.min[3], aabb.max[3]) >>)

\* One turn of `for aabb in uniforms.aabbs.iter()` of submit_ray: the t with
\* which the box is pushed to `intersections`, None when it is not pushed.
Pushed(ray, aabb) ==
    IF ~ray_aabb_intersection(ray.origin, ray.direction, aabb.min, aabb.max).some THEN None
    ELSE CHOOSE result \in
           {IF t.some /\ QLess(QZero, t.v) THEN t ELSE None :
               t \in {intersection_shader(ray, aabb)}} : TRUE

\* `intersections` of submit_ray before the sort, by the index of the box.
Intersected(ray, uniforms) ==
    [k \in DOMAIN uniforms.aabbs |-> Pushed(ray, uniforms.aabbs[k])]

\* A sort that is not stable: of the boxes with the smallest t the last comes
\* first.
SortedFirst_LastOfTies(intersections) ==
    IF \A k \in DOMAIN intersections : ~intersections[k].some
    THEN [aabb |-> 0, t |-> QInf]
    ELSE CHOOSE first \in {[aabb |-> k, t |-> intersections[k].v] :
                               k \in {j \in DOMAIN intersections : intersections[j].some}} :
            \A j \in DOMAIN intersections :
                intersections[j].some =>
                    \/ QLess(first.t, intersections[j].v)
                    \/ (first.t = intersections[j].v /\ first.aabb >= j)

\* intersections.first() after the stable sort by t: the index of the box (0
\* for an empty list) and its t.
SortedFirst(intersections) ==
    IF \A k \in DOMAIN intersections : ~intersections[k].some
    THEN [aabb |-> 0, t |-> QInf]
    ELSE CHOOSE first \in {[aabb |-> k, t |-> intersections[k].v] :
                               k \in {j \in DOMAIN intersections : intersections[j].some}} :
            \A j \in DOMAIN intersections :
                intersections[j].some =>
                    \/ QLess(first.t, intersections[j].v)
                    \/ (first.t = intersections[j].v /\ first.aabb <= j)

FirstIntersection(ray, uniforms) ==
    CHOOSE first \in {SortedFirst(intersections) :
                         intersections \in {Intersected(ray, uniforms)}} : TRUE

\* A hit shader that shoots on with a bounce budget of 1.
MayBounce_AtOne(ray) == ray.max_bounces > 0

\* if ray.max_bounces > 1
MayBounce(ray) == ray.max_bounces > 1

\* A hit shader that treats every box as diffuse.
IsMetallic_Never(aabb) == FALSE

\* if aabb.metallicness
IsMetallic(aabb) == aabb.metallicness

\* A submit_ray that ignores max_hit_distance.
WithinReach_Always(t, ray) == TRUE

\* if t <= &ray.max_hit_distance
WithinReach(t, ray) == QLeq(t, ray.max_hit_distance)

\* The record of one submit_ray call.
Call(id, parent, kind, light, ray, shader, aabb, ray_after, lights_added) ==
    [id |-> id, parent |-> parent, kind |-> kind, light |-> light, ray |-> ray,
     shader |-> shader, aabb |-> aabb, hit |-> ray_after.hit,
     spectrum_after |-> ray_after.spectrum, lights_added |-> lights_added]

\* miss_shader
miss_shader(ray) == [ray EXCEPT !.spectrum = new_equal_size_empty_spectrum, !.hit = FALSE]

\* The lights loop of hit_shader after the shadow ray of light i, submitted
\* as `sub`, has returned.
AfterShadowRay(so_far, sub, i, normal, ray, distance) ==
    LET cos_in == QMax(dot(normalize(sub.ray.direction), normal), QZero)
        cos_out == QMax(dot(VNeg(ray.direction), normal), QZero)
        adjusted == AdjustedLight(i, distance, cos_in, cos_out)
    IN  [received_spectrum |->
             IF ~sub.ray.hit THEN SpectrumAdd(so_far.received_spectrum, adjusted)
             ELSE so_far.received_spectrum,
         calls |-> so_far.calls \o sub.calls,
         lights_added |->
             IF ~sub.ray.hit THEN so_far.lights_added \cup {i} ELSE so_far.lights_added]

\* The end of hit_shader: ray.spectrum = &aabb.reflective_spectrum * &received_spectrum.
HitShaderEnd(ray, aabb, ray_intersection_length, gathered) ==
    [ray |-> [ray EXCEPT !.hit = TRUE, !.hit_distance = ray_intersection_length,
                         !.spectrum = SpectrumReflect(aabb, gathered.received_spectrum)],
     calls |-> gathered.calls, lights_added |-> gathered.lights_added]

\* received_spectrum += &new_ray.spectrum, for the ray of the call `sub`.
AfterBounce(so_far, sub) ==
    [received_spectrum |-> SpectrumAdd(so_far.received_spectrum, sub.ray.spectrum),
     calls |-> so_far.calls \o sub.calls, lights_added |-> so_far.lights_added]

\* The end of submit_ray after its hit shader has returned `shaded`.
AfterHitShader(id, parent, kind, light, ray, first, shaded) ==
    [ray |-> shaded.ray,
     calls |-> << Call(id, parent, kind, light, ray, "hit_shader", first, shaded.ray,
                       shaded.lights_added) >> \o shaded.calls]

\* The head of hit_shader: position and normal of the hit and the origin of
\* the rays shot from it.
HitGeometry(ray, box, ray_intersection_length) ==
    CHOOSE geometry \in
      {[intersection_point |-> intersection_point, normal |-> normal,
        new_shot_rays_pos |->
            VAdd(intersection_point, VScale(normal, NEW_RAY_POSITION_OFFSET_DISTANCE))] :
          normal \in {plain_box_normal_calculation(box, VAdd(ray.origin,
                          VScale(ray.direction, ray_intersection_length)))},
          intersection_point \in {VAdd(ray.origin,
                                       VScale(ray.direction, ray_intersection_length))}} : TRUE

\* The shadow ray hit_shader shoots from pos at a light.
ShadowRayTo(light, pos) ==
    CHOOSE shadow \in
      {[distance |-> magnitude(direction),
        ray |-> new_shadow_ray(pos, normalize(direction), magnitude(direction))] :
          direction \in {VSub(light.position, pos)}} : TRUE

RECURSIVE submit_ray(_, _, _, _, _, _)
RECURSIVE hit_shader(_, _, _, _, _)
RECURSIVE ShadowRays(_, _, _, _, _, _, _)

\* hit_shader, `for light in uniforms.lights.iter()` from light i on: the
\* spectrum received, the calls made and the lights added so far are passed on.
ShadowRays(ray, uniforms, new_shot_rays_pos, normal, id, i, so_far) ==
    IF i > Len(uniforms.lights) THEN so_far
    ELSE CHOOSE result \in
            {ShadowRays(ray, uniforms, new_shot_rays_pos, normal, id, i + 1, next) :
                next \in {AfterShadowRay(so_far, sub, i, normal, ray,
                                         ShadowRayTo(uniforms.lights[i],
                                                     new_shot_rays_pos).distance) :
                    sub \in {submit_ray(shadow.ray, uniforms, "shadow", i, id, next_id) :
                        shadow \in {ShadowRayTo(uniforms.lights[i], new_shot_rays_pos)},
                        next_id \in {id + 1 + Len(so_far.calls)}}}} : TRUE

\* hit_shader for the submit_ray call number id. The direction of the diffuse
\* bounce is the sample theta = 0 of the hemisphere: the normal.
hit_shader(ray, aabb, ray_intersection_length, uniforms, id) ==
    LET box == uniforms.aabbs[aabb]
        nothing == [received_spectrum |-> new_equal_size_empty_spectrum, calls |-> << >>,
                    lights_added |-> {}]
    IN  CHOOSE result \in
          {IF IsMetallic(box)
           THEN IF MayBounce(ray)
                THEN CHOOSE reflected \in
                        {HitShaderEnd(ray, aabb, ray_intersection_length,
                                      AfterBounce(nothing, mirror)) :
                            mirror \in
                                {submit_ray(new_ray, uniforms, "mirror", 0, id, next_id) :
                                    new_ray \in {Ray_new(hit.new_shot_rays_pos,
                                                         reflect_vec(ray.direction, hit.normal),
                                                         ray.max_bounces - 1)},
                                    next_id \in {id + 1}}} : TRUE
                ELSE HitShaderEnd(ray, aabb, ray_intersection_length, nothing)
           ELSE CHOOSE lit \in
                  {IF MayBounce(ray)
                   THEN CHOOSE bounced \in
                          {HitShaderEnd(ray, aabb, ray_intersection_length,
                                        AfterBounce(direct, [diffuse EXCEPT
                                            !.ray.spectrum = max0(diffuse.ray.spectrum)])) :
                              diffuse \in
                                  {submit_ray(new_ray, uniforms, "diffuse", 0, id, next_id) :
                                      new_ray \in {Ray_new(hit.intersection_point, hit.normal,
                                                           ray.max_bounces - 1)},
                                      next_id \in {id + 1 + Len(direct.calls)}}} : TRUE
                   ELSE HitShaderEnd(ray, aabb, ray_intersection_length, direct) :
                      direct \in {ShadowRays(ray, uniforms, hit.new_shot_rays_pos, hit.normal,
                                             id, 1, nothing)}} : TRUE :
              hit \in {HitGeometry(ray, box, ray_intersection_length)}} : TRUE

\* submit_ray, as the call number id made by the hit shader of call `parent`.
submit_ray(ray, uniforms, kind, light, parent, id) ==
    CHOOSE result \in
      {IF first.aabb = 0
       THEN [ray |-> miss_shader(ray),
             calls |-> << Call(id, parent, kind, light, ray, "miss_shader", 0,
                               miss_shader(ray), {}) >>]
       ELSE IF ~WithinReach(first.t, ray)
       THEN [ray |-> ray,
             calls |-> << Call(id, parent, kind, light, ray, "none", first.aabb, ray, {}) >>]
       ELSE IF ~ray.skip_hit_shader
       THEN CHOOSE hit \in
               {AfterHitShader(id, parent, kind, light, ray, first.aabb, shaded) :
                   shaded \in {hit_shader(ray, first.aabb, first.t, uniforms, id)}} : TRUE
       ELSE [ray |-> [ray EXCEPT !.hit = TRUE],
             calls |-> << Call(id, parent, kind, light, ray, "none", first.aabb,
                               [ray EXCEPT !.hit = TRUE], {}) >>] :
          first \in {FirstIntersection(ray, uniforms)}} : TRUE

\* ray_generation_shader, for the pixel in the centre of the image: the ray
\* leaves the camera along its direction. What it returns is the ray's
\* spectrum, here before its conversion to (r, g, b).
ray_generation_shader(uniforms) ==
    LET forward == normalize(uniforms.camera.direction)
    IN  submit_ray(Ray_new(uniforms.camera.position, forward, NEW_RAY_MAX_BOUNCES),
                   uniforms, "camera", 0, 0, 1)

(***************************************************************************)
(* wavelength_to_XYZ (spectrum.rs), in exact arithmetic.                   *)
(***************************************************************************)
\* WAVELENGTH_TO_XYZ_TABLE, 380 nm to 780 nm in steps of 5 nm; the entries
\* in millionths.
WAVELENGTH_TO_XYZ_TABLE ==
    << << 160, 17, 705 >>, << 662, 72, 2928 >>, << 2362, 253, 10482 >>,
       << 7242, 769, 32344 >>, << 19110, 2004, 86011 >>,
       << 43400, 4509, 197120 >>, << 84736, 8756, 389366 >>,
       << 140638, 14456, 656760 >>, << 204492, 21391, 972542 >>,
       << 264737, 29497, 1282500 >>, << 314679, 38676, 1553480 >>,
       << 357719, 49602, 1798500 >>, << 383734, 62077, 1967280 >>,
       << 386726, 74704, 2027300 >>, << 370702, 89456, 1994800 >>,
       << 342957, 106256, 1900700 >>, << 302273, 128201, 1745370 >>,
       << 254085, 152761, 1554900 >>, << 195618, 185190, 1317560 >>,
       << 132349, 219940, 1030200 >>, << 80507, 253589, 772125 >>,
       << 41072, 297665, 570060 >>, << 16172, 339133, 415254 >>,
       << 5132, 395379, 302356 >>, << 3816, 460777, 218502 >>,
       << 15444, 531360, 159249 >>, << 37465, 606741, 112044 >>,
       << 71358, 685660, 82248 >>, << 117749, 761757, 60709 >>,
       << 172953, 823330, 43050 >>, << 236491, 875211, 30451 >>,
       << 304213, 923810, 20584 >>, << 376772, 961988, 13676 >>,
       << 451584, 982200, 7918 >>, << 529826, 991761, 3988 >>,
       << 616053, 999110, 1091 >>, << 705224, 997340, 0 >>,
       << 793832, 982380, 0 >>, << 878655, 955552, 0 >>,
       << 951162, 915175, 0 >>, << 1014160, 868934, 0 >>,
       << 1074300, 825623, 0 >>, << 1118520, 777405, 0 >>,
       << 1134300, 720353, 0 >>, << 1123990, 658341, 0 >>,
       << 1089100, 593878, 0 >>, << 1030480, 527963, 0 >>,
       << 950740, 461834, 0 >>, << 856297, 398057, 0 >>,
       << 754930, 339554, 0 >>, << 647467, 283493, 0 >>,
       << 535110, 228254, 0 >>, << 431567, 179828, 0 >>,
       << 343690, 140211, 0 >>, << 268329, 107633, 0 >>,
       << 204300, 81187, 0 >>, << 152568, 60281, 0 >>,
       << 112210, 44096, 0 >>, << 81261, 31800, 0 >>,
       << 57930, 22602, 0 >>, << 40851, 15905, 0 >>,
       << 28623, 11130, 0 >>, << 19941, 7749, 0 >>, << 13842, 5375, 0 >>,
       << 9577, 3718, 0 >>, << 6605, 2565, 0 >>, << 4553, 1768, 0 >>,
       << 3145, 1222, 0 >>, << 2175, 846, 0 >>, << 1506, 586, 0 >>,
       << 1045, 407, 0 >>, << 727, 284, 0 >>, << 508, 199, 0 >>,
       << 356, 140, 0 >>, << 251, 98, 0 >>, << 178, 70, 0 >>,
       << 126, 50, 0 >>, << 90, 36, 0 >>, << 65, 25, 0 >>,
       << 46, 18, 0 >>, << 33, 13, 0 >> >>

\* WAVELENGTH_TO_XYZ_TABLE[index], for an index from 0.
TableEntry(index) ==
    << Frac(WAVELENGTH_TO_XYZ_TABLE[index + 1][1], 1000000),
       Frac(WAVELENGTH_TO_XYZ_TABLE[index + 1][2], 1000000),
       Frac(WAVELENGTH_TO_XYZ_TABLE[index + 1][3], 1000000) >>

\* `as usize` of a finite value that is not negative.
AsUsize(a) == a.n \div a.d

\* f32::fract of a finite value that is not negative.
fract(a) == Frac(a.n % a.d, a.d)

\* value_lower * fract + value_upper * fract_inv, for each of the three.
Interpolated(value_lower, value_upper, fract_of) ==
    [c \in 1 .. 3 |-> QAdd(QMul(value_lower[c], fract_of),
                           QMul(value_upper[c], QSub(QOne, fract_of)))]

\* The part of wavelength_to_XYZ after `let w_adjusted`.
InterpolatedAt(w_adjusted) ==
    Interpolated(TableEntry(AsUsize(w_adjusted)), TableEntry(AsUsize(w_adjusted) + 1),
                 fract(w_adjusted))

wavelength_to_XYZ(wavelength) ==
    IF ~(QLeq(Frac(380, 1), wavelength) /\ QLeq(wavelength, Frac(780, 1)))
    THEN << QZero, QZero, QZero >>
    ELSE IF wavelength.d = 1 /\ wavelength.n % 5 = 0
    THEN TableEntry((AsUsize(wavelength) - 380) \div 5)
    ELSE InterpolatedAt(QDiv(QSub(wavelength, Frac(380, 1)), Frac(5, 1)))

(***************************************************************************)
(* black_body_radiation (spectrum.rs). The radiance it returns, Planck's   *)
(* law with an exponential, is not computed: a call either panics in one   *)
(* of its two assertions or returns.                                       *)
(***************************************************************************)
\* black_body_radiation without its assertion on the temperature.
black_body_radiation_NoTemperatureAssert(wavelength_nm, temperature_k) ==
    IF ~QLess(QZero, wavelength_nm) THEN [res |-> "Panic"] ELSE [res |-> "Ok"]

black_body_radiation(wavelength_nm, temperature_k) ==
    IF ~QLess(QZero, wavelength_nm) THEN [res |-> "Panic"]
    ELSE IF ~QLess(QZero, temperature_k) THEN [res |-> "Panic"]
    ELSE [res |-> "Ok"]

(***************************************************************************)
(* reduce_action_list (main.rs): of the FrameUpdates of the list taken     *)
(* from the render thread, all but the last are removed.                   *)
(***************************************************************************)
\* nbr_of_frame_updates after the first loop
FrameUpdatesIn(action_list) ==
    Cardinality({i \in 1 .. Len(action_list) : action_list[i].tag = "FrameUpdate"})

\* The second loop, for i in (0..action_list.len()).rev(), from i on
\* downwards; i = -1 ends it.
RECURSIVE RemoveLoop(_, _, _)
RemoveLoop(action_list, i, found_last) ==
    IF i < 0 THEN action_list
    ELSE IF At(action_list, i).tag # "FrameUpdate" THEN RemoveLoop(action_list, i - 1, found_last)
    ELSE IF ~found_last THEN RemoveLoop(action_list, i - 1, TRUE)
    ELSE RemoveLoop(Remove(action_list, i), i - 1, found_last)

\* reduce_action_list which starts removing at three FrameUpdates.
reduce_action_list_FromThree(action_list) ==
    IF FrameUpdatesIn(action_list) > 2
    THEN RemoveLoop(action_list, Len(action_list) - 1, FALSE)
    ELSE action_list

reduce_action_list(action_list) ==
    IF FrameUpdatesIn(action_list) > 1
    THEN RemoveLoop(action_list, Len(action_list) - 1, FALSE)
    ELSE action_list

(***************************************************************************)
(* SpecFunctions: one call of a free-standing function or constructor, and *)
(* for a constructed image the first blend_pixel on it.                    *)
(***************************************************************************)
MaxPixels == 6

FromDataWidths == {0, 1, 2, 3, 65536, 1073741824}
FromDataHeights == {0, 1, 2, 16384, 65536}
FromDataLengths == {NBR_DATA_POINTS_PER_PIXEL * k : k \in 0 .. MaxPixels} \cup {7}

\* Frames accumulated into a pixel, and the colours a frame can give it.
MaxBlendFrames == 3
FrameColours ==
    {<< QZero, QZero, QZero >>, << QOne, Frac(1, 2), QZero >>,
     << Frac(3, 1), QOne, Frac(1, 4) >>}

RECURSIVE ColourLists(_)
ColourLists(n) ==
    IF n = 0 THEN {<< >>}
    ELSE {Append(list, c) : list \in ColourLists(n - 1), c \in FrameColours}

\* Wavelengths (nm) and temperatures (K) as f64 values: negative, zero, tiny,
\* usual, infinite and NaN.
BlackBodyInputs ==
    {Frac(-1, 1), QZero, Frac(1, 1000), Frac(100, 1), Frac(1000, 1), QInf, QNegInf, QNaN}

\* The box, the ray origins (two inside, one on a face, one outside) and the
\* components of the ray directions of the slab test.
SlabBox == [min |-> << Frac(-1, 1), Frac(-1, 1), Frac(-1, 1) >>,
            max |-> << QOne, Frac(2, 1), QOne >>]
SlabOrigins ==
    {<< QZero, QZero, QZero >>, << Frac(1, 2), QOne, Frac(-1, 2) >>,
     << QOne, QZero, QZero >>, << Frac(3, 1), QZero, QZero >>}
SlabComponents == {Frac(-1, 1), QNegZero, QZero, Frac(1, 2), Frac(2, 1), QNaN}

InitFunctions ==
    /\ FunctionsIdle
    /\ RenderIdle
    /\ ImageIdle
    /\ SpectrumIdle
    /\ ShaderIdle
    /\ SceneIdle

CallNewFromData ==
    \E width \in FromDataWidths, height \in FromDataHeights,
       len \in FromDataLengths, build \in Builds :
        /\ fn_call.op = "none"
        /\ fn_call' = [op |-> "new_from_data", width |-> width, height |-> height,
                       len |-> len, build |-> build]
        /\ fn_result' = new_from_data(width, height, len, build)
        /\ UNCHANGED notFunctionVars

\* blend_pixel on the image new_from_data returned, up to its assertion.
CallBlendPixelOnNew ==
    /\ fn_call.op = "new_from_data"
    /\ fn_result.res = "Ok"
    /\ fn_call' = [op |-> "blend_pixel", width |-> fn_result.width,
                   height |-> fn_result.height, len |-> fn_result.len,
                   build |-> fn_call.build]
    /\ fn_result' = [res |-> IF blend_pixel_length_assert(fn_result.width, fn_result.height,
                                                          fn_result.len)
                             THEN "Asserted" ELSE "Panic"]
    /\ UNCHANGED notFunctionVars

\* A render of Len(colours) frames, seen at one pixel.
CallAccumulateFrames ==
    \E n \in 1 .. MaxBlendFrames :
        \E colours \in ColourLists(n) :
            /\ fn_call.op = "none"
            /\ fn_call' = [op |-> "accumulate_frames", colours |-> colours]
            /\ fn_result' = [res |-> "Ok", pixel |-> AccumulateFrames(colours, n - 1)]
            /\ UNCHANGED notFunctionVars

CallBlackBodyRadiation ==
    \E wavelength_nm \in BlackBodyInputs, temperature_k \in BlackBodyInputs :
        /\ fn_call.op = "none"
        /\ fn_call' = [op |-> "black_body_radiation", wavelength_nm |-> wavelength_nm,
                       temperature_k |-> temperature_k]
        /\ fn_result' = black_body_radiation(wavelength_nm, temperature_k)
        /\ UNCHANGED notFunctionVars

CallRayAabbIntersection ==
    \E ray_origin \in SlabOrigins, dx \in SlabComponents, dy \in SlabComponents,
       dz \in SlabComponents :
        /\ fn_call.op = "none"
        /\ fn_call' = [op |-> "ray_aabb_intersection", ray_origin |-> ray_origin,
                       ray_direction |-> << dx, dy, dz >>,
                       point_min |-> SlabBox.min, point_max |-> SlabBox.max]
        /\ fn_result' = ray_aabb_intersection(ray_origin, << dx, dy, dz >>,
                                              SlabBox.min, SlabBox.max)
        /\ UNCHANGED notFunctionVars

\* The wavelengths of the calls: not a number, outside the table, on its
\* entries and between them.
XYZWavelengths ==
    {QNaN, QNegInf, QZero, Frac(379, 1), Frac(380, 1), Frac(381, 1), Frac(765, 2),
     Frac(384, 1), Frac(385, 1), Frac(1405, 2), Frac(750, 1), Frac(776, 1), Frac(1559, 2),
     Frac(780, 1), Frac(781, 1), QInf}

CallWavelengthToXYZ ==
    \E wavelength \in XYZWavelengths :
        /\ fn_call.op = "none"
        /\ fn_call' = [op |-> "wavelength_to_XYZ", wavelength |-> wavelength]
        /\ fn_result' = [res |-> "Ok", xyz |-> wavelength_to_XYZ(wavelength)]
        /\ UNCHANGED notFunctionVars

\* The lists of the calls of reduce_action_list: every list of up to
\* MaxActions actions; a FrameUpdate carries its place in the list as its
\* image, a RenderingProgressUpdate as its progress.
MaxActions == 4

ActionTags == {"FrameUpdate", "RenderingProgressUpdate", "TrueTimeUpdate", "DestroySender"}

ActionOf(tag, place) ==
    IF tag = "FrameUpdate" THEN FrameUpdate(place)
    ELSE IF tag = "RenderingProgressUpdate" THEN RenderingProgressUpdate(place)
    ELSE IF tag = "TrueTimeUpdate" THEN TrueTimeUpdate
    ELSE DestroySender

ActionLists ==
    UNION {{[place \in 1 .. n |-> ActionOf(tags[place], place)] : tags \in [1 .. n -> ActionTags]} :
             n \in 0 .. MaxActions}

CallReduceActionList ==
    \E action_list \in ActionLists :
        /\ fn_call.op = "none"
        /\ fn_call' = [op |-> "reduce_action_list", action_list |-> action_list]
        /\ fn_result' = [res |-> "Ok", action_list |-> reduce_action_list(action_list)]
        /\ UNCHANGED notFunctionVars

NextFunctions ==
    \/ CallNewFromData
    \/ CallBlendPixelOnNew
    \/ CallAccumulateFrames
    \/ CallBlackBodyRadiation
    \/ CallRayAabbIntersection
    \/ CallWavelengthToXYZ
    \/ CallReduceActionList

SpecFunctions == InitFunctions /\ [][NextFunctions]_vars

(***************************************************************************)
(* SpecShader: one ray submitted to one scene. The scene lies on the x     *)
(* axis: up to two boxes of the cross-section [-1, 1] x [-1, 1], each      *)
(* diffuse or metallic, and lights before and between them; the camera     *)
(* sits at the origin and looks along x. The second box lies behind the    *)
(* first or around it, with the same front face. Nothing lies behind the   *)
(* camera: a ray from the camera meets the first box and bounces off into  *)
(* the void, while a ray that starts between the boxes bounces between     *)
(* them until its budget, at most MaxBounces, is used up.                  *)
(***************************************************************************)
\* The largest bounce budget of a ray handed to submit_ray directly.
MaxBounces == 3

\* Aabb::new_box, PlainBox, spanning from x = a to x = b.
Box(a, b, metallicness) ==
    [min |-> << Frac(a, 1), Frac(-1, 1), Frac(-1, 1) >>,
     max |-> << Frac(b, 1), QOne, QOne >>, metallicness |-> metallicness]

Materials == {"none", "diffuse", "metallic"}

\* Where the second box begins and ends.
SecondBoxes == {<< 5, 6 >>, << 2, 4 >>}

\* The boxes of a scene: one from 2 to 3 and a second one, each present or
\* not.
BoxList(m1, m2, second) ==
    (IF m1 = "none" THEN << >> ELSE << Box(2, 3, m1 = "metallic") >>)
    \o (IF m2 = "none" THEN << >> ELSE << Box(second[1], second[2], m2 = "metallic") >>)

\* Light::new
Light(x) == [position |-> << Frac(x, 1), QZero, QZero >>]

LightLists == {<< >>, << Light(1) >>, << Light(1), Light(4) >>}

\* The values of the UI's bounce limit (1 ..= NEW_RAY_MAX_BOUNCES_MAX) the
\* model requests renders with.
RequestedBounces == {1, 2, NEW_RAY_MAX_BOUNCES}

\* The uniforms as dispatch_render builds them.
Uniforms ==
    {[aabbs |-> BoxList(m1, m2, second), lights |-> lights,
      camera |-> [position |-> << QZero, QZero, QZero >>,
                  direction |-> << Frac(2, 1), QZero, QZero >>,
                  up |-> << QZero, QOne, QZero >>],
      max_bounces |-> max_bounces] :
        m1 \in Materials, m2 \in Materials, second \in SecondBoxes,
        lights \in LightLists, max_bounces \in RequestedBounces}

\* Origins, directions and reaches of the rays handed to submit_ray directly.
RayOrigins == {<< QZero, QZero, QZero >>, << Frac(5, 2), QZero, QZero >>,
               << Frac(4, 1), QZero, QZero >>}
RayDirections == {<< QOne, QZero, QZero >>, << Frac(-1, 1), QZero, QZero >>}
RayReaches == {Frac(1, 2), QOne, Frac(2, 1), Frac(4, 1), QInf}

InitShader ==
    /\ sh_uniforms \in Uniforms
    /\ sh_call = [op |-> "none"]
    /\ sh_result = [res |-> "none"]
    /\ RenderIdle
    /\ ImageIdle
    /\ SpectrumIdle
    /\ FunctionsIdle
    /\ SceneIdle

\* A row task shades the pixel in the centre of the image.
CallRayGenerationShader ==
    /\ sh_call.op = "none"
    /\ sh_call' = [op |-> "ray_generation_shader"]
    /\ sh_result' = ray_generation_shader(sh_uniforms)
    /\ UNCHANGED sh_uniforms
    /\ UNCHANGED notShaderVars

\* submit_ray on a ray of Ray::new.
CallSubmitRay ==
    \E origin \in RayOrigins, direction \in RayDirections, max_bounces \in 1 .. MaxBounces :
        /\ sh_call.op = "none"
        /\ sh_call' = [op |-> "submit_ray"]
        /\ sh_result' = submit_ray(Ray_new(origin, direction, max_bounces), sh_uniforms,
                                   "given", 0, 0, 1)
        /\ UNCHANGED sh_uniforms
        /\ UNCHANGED notShaderVars

\* submit_ray on a ray of Ray::new_shadow_ray.
CallSubmitShadowRay ==
    \E origin \in RayOrigins, direction \in RayDirections, max_hit_distance \in RayReaches :
        /\ sh_call.op = "none"
        /\ sh_call' = [op |-> "submit_shadow_ray"]
        /\ sh_result' = submit_ray(new_shadow_ray(origin, direction, max_hit_distance),
                                   sh_uniforms, "shadow", 0, 0, 1)
        /\ UNCHANGED sh_uniforms
        /\ UNCHANGED notShaderVars

NextShader == CallRayGenerationShader \/ CallSubmitRay \/ CallSubmitShadowRay

SpecShader == InitShader /\ [][NextShader]_vars

(***************************************************************************)
(* Claims about free-standing functions.                                   *)
(***************************************************************************)
\* width * height * 4 as a mathematical integer.
ExactLength(width, height) == WideMul(WideMul(Wide(width), Wide(height)), Wide(4))

\* C11: new_from_data returns an error if and only if data.len() differs from
\* width * height * 4 as mathematical integers, and on an image it returned
\* the length assertion of blend_pixel does not fire.
C11_FromDataLengthExact ==
    /\ fn_call.op = "new_from_data" =>
          /\ fn_result.res = "Err"
                <=> ExactLength(fn_call.width, fn_call.height) # Wide(fn_call.len)
          /\ fn_result.res \in {"Ok", "Err"}
    /\ fn_call.op = "blend_pixel" => fn_result.res # "Panic"

\* The sum of channel c (1 = r, 2 = g, 3 = b) of the first n colours.
RECURSIVE ChannelSum(_, _, _)
ChannelSum(colours, c, n) ==
    IF n = 0 THEN QZero ELSE QAdd(ChannelSum(colours, c, n - 1), colours[n][c])

ChannelMean(colours, c) == QDiv(ChannelSum(colours, c, Len(colours)), Frac(Len(colours), 1))

\* C12: starting from the zero image and blending frame j with weight
\* 1 / (j + 1) for j = 0 .. k, every colour channel of the pixel is the
\* arithmetic mean of the k + 1 frame values, and alpha is 1 (in exact
\* arithmetic).
C12_RunningMean ==
    fn_call.op = "accumulate_frames" =>
        /\ fn_result.pixel.r = ChannelMean(fn_call.colours, 1)
        /\ fn_result.pixel.g = ChannelMean(fn_call.colours, 2)
        /\ fn_result.pixel.b = ChannelMean(fn_call.colours, 3)
        /\ fn_result.pixel.a = QOne

\* Three different frames have been accumulated: red is (0 + 1 + 3) / 3.
C12_Witness ==
    /\ fn_call.op = "accumulate_frames"
    /\ fn_call.colours = << << QZero, QZero, QZero >>, << QOne, Frac(1, 2), QZero >>,
                            << Frac(3, 1), QOne, Frac(1, 4) >> >>
    /\ fn_result.pixel.r = Frac(4, 3)
    /\ fn_result.pixel.b = Frac(1, 12)

\* C15: black_body_radiation panics whenever the wavelength or the
\* temperature is <= 0, and returns only when both are > 0.
C15_BlackBodyPositiveOnly ==
    fn_call.op = "black_body_radiation" =>
        /\ (QLeq(fn_call.wavelength_nm, QZero) \/ QLeq(fn_call.temperature_k, QZero))
              => fn_result.res = "Panic"
        /\ fn_result.res = "Ok"
              => (QLess(QZero, fn_call.wavelength_nm) /\ QLess(QZero, fn_call.temperature_k))

\* The call of the test for an illegal temperature: 100 nm at -1 K panicked.
C15_Witness ==
    /\ fn_call.op = "black_body_radiation"
    /\ fn_call.wavelength_nm = Frac(100, 1)
    /\ fn_call.temperature_k = Frac(-1, 1)
    /\ fn_result.res = "Panic"

\* The origin of the call lies strictly inside its box.
OriginStrictlyInside ==
    \A i \in 1 .. 3 :
        /\ QLess(fn_call.point_min[i], fn_call.ray_origin[i])
        /\ QLess(fn_call.ray_origin[i], fn_call.point_max[i])

\* C16: ray_aabb_intersection for a ray whose origin lies strictly inside the
\* box returns a hit for every direction, with t_min < 0 <= t_max.
C16_InsideAlwaysHits ==
    (fn_call.op = "ray_aabb_intersection" /\ OriginStrictlyInside) =>
        /\ fn_result.some
        /\ QLess(fn_result.v[1], QZero)
        /\ QLeq(QZero, fn_result.v[2])

\* From (1/2, 1, -1/2) along (-1, 0, 2) the box is left after 3/4, and was
\* entered 1/4 before the origin.
C16_Witness ==
    /\ fn_call.op = "ray_aabb_intersection"
    /\ fn_call.ray_origin = << Frac(1, 2), QOne, Frac(-1, 2) >>
    /\ fn_call.ray_direction = << Frac(-1, 1), QZero, Frac(2, 1) >>
    /\ fn_result = Some(<< Frac(-1, 4), Frac(3, 4) >>)

(***************************************************************************)
(* Claims about the shaders, over SpecShader. ShaderCalls is the list of   *)
(* the submit_ray calls of the operation that has run, in the order they   *)
(* were made; the first is the ray the operation submitted itself.         *)
(***************************************************************************)
ShaderCalls == IF sh_call.op = "none" THEN << >> ELSE sh_result.calls

\* The calls made by the hit shader of call k.
ChildrenOf(k) == {j \in DOMAIN ShaderCalls : ShaderCalls[j].parent = k}

\* A mirror or diffuse bounce ray.
IsContinuation(c) == c.kind \in {"mirror", "diffuse"}

\* The calls whose ray ran the hit shader.
HitShaderCalls == {j \in DOMAIN ShaderCalls : ShaderCalls[j].shader = "hit_shader"}

\* C14: the bounce budget of the camera ray is the bounce limit the render
\* was requested with, and a render requested with the limit 1 submits no
\* mirror or diffuse bounce ray.
C14_CameraRayBudgetIsRequested ==
    sh_call.op = "ray_generation_shader" =>
        /\ ShaderCalls[1].ray.max_bounces = sh_uniforms.max_bounces
        /\ sh_uniforms.max_bounces = 1 =>
               \A j \in DOMAIN ShaderCalls : ~IsContinuation(ShaderCalls[j])

\* C18: a mirror or diffuse bounce ray is submitted only by the hit shader of
\* a ray whose budget is greater than 1, and its budget is that ray's budget
\* minus 1; so a ray of budget B that is not a shadow ray has the hit shader
\* run at most B times in all, and submit_ray returns after at most
\* 1 + B * (number of lights + 1) calls.
C18_ContinuationBudget ==
    /\ \A j \in DOMAIN ShaderCalls :
           /\ ShaderCalls[j].id = j
           /\ IsContinuation(ShaderCalls[j]) =>
                  /\ ShaderCalls[j].parent \in HitShaderCalls
                  /\ ShaderCalls[j].parent < j
                  /\ ShaderCalls[ShaderCalls[j].parent].ray.max_bounces > 1
                  /\ ShaderCalls[j].ray.max_bounces
                         = ShaderCalls[ShaderCalls[j].parent].ray.max_bounces - 1
    /\ sh_call.op \in {"ray_generation_shader", "submit_ray"} =>
           /\ ShaderCalls[1].ray.max_bounces >= 1
           /\ Cardinality(HitShaderCalls) <= ShaderCalls[1].ray.max_bounces
           /\ Len(ShaderCalls)
                  <= 1 + ShaderCalls[1].ray.max_bounces * (Len(sh_uniforms.lights) + 1)

\* A ray of budget B >= 2 has used its budget up: the hit shader has run B
\* times, and the last of these rays, of budget 1, was not continued.
C18_Witness ==
    /\ sh_call.op = "submit_ray"
    /\ ShaderCalls[1].ray.max_bounces >= 2
    /\ Cardinality(HitShaderCalls) = ShaderCalls[1].ray.max_bounces
    /\ \E j \in HitShaderCalls :
           /\ IsContinuation(ShaderCalls[j])
           /\ ShaderCalls[j].ray.max_bounces = 1
           /\ \A k \in ChildrenOf(j) : ~IsContinuation(ShaderCalls[k])

\* The hits on a metallic box.
MetallicHits == {j \in HitShaderCalls : sh_uniforms.aabbs[ShaderCalls[j].aabb].metallicness}

\* C19: the hit shader of a hit on a metallic box submits no shadow ray and
\* adds no light; it submits at most one ray, a mirror ray, and only if the
\* budget of the ray that hit is greater than 1; with a budget of 1 it
\* submits nothing and leaves the ray with the spectrum of zeros.
C19_MetallicHit ==
    \A j \in MetallicHits :
        /\ \A k \in ChildrenOf(j) : ShaderCalls[k].kind = "mirror"
        /\ Cardinality(ChildrenOf(j)) <= 1
        /\ ChildrenOf(j) # {} => ShaderCalls[j].ray.max_bounces > 1
        /\ ShaderCalls[j].lights_added = {}
        /\ \A i \in DOMAIN ShaderCalls[j].spectrum_after :
               Len(ShaderCalls[j].spectrum_after[i].via) > 1
        /\ ShaderCalls[j].ray.max_bounces = 1 =>
               /\ ChildrenOf(j) = {}
               /\ ShaderCalls[j].spectrum_after = new_equal_size_empty_spectrum

\* In a scene with lights, a metallic hit of budget 2 has submitted its one
\* mirror ray, and that ray's own metallic hit, of budget 1, has submitted
\* nothing and is black.
C19_Witness ==
    /\ sh_uniforms.lights # << >>
    /\ \E j \in MetallicHits, k \in MetallicHits :
           /\ ShaderCalls[j].ray.max_bounces = 2
           /\ ChildrenOf(j) = {k}
           /\ ShaderCalls[k].kind = "mirror"
           /\ ShaderCalls[k].ray.max_bounces = 1
           /\ ChildrenOf(k) = {}
           /\ ShaderCalls[k].spectrum_after = new_equal_size_empty_spectrum

\* Some box is intersected by the ray at a distance t with
\* 0 < t <= max_hit_distance.
BlockedWithinReach(ray) ==
    \E k \in DOMAIN sh_uniforms.aabbs :
        /\ ray_aabb_intersection(ray.origin, ray.direction, sh_uniforms.aabbs[k].min,
                                 sh_uniforms.aabbs[k].max).some
        /\ QLess(QZero, intersection_shader(ray, sh_uniforms.aabbs[k]).v)
        /\ QLeq(intersection_shader(ray, sh_uniforms.aabbs[k]).v, ray.max_hit_distance)

\* The shadow rays the hit shader of call j has submitted for light i.
ShadowRaysFor(j, i) ==
    {k \in ChildrenOf(j) : ShaderCalls[k].kind = "shadow" /\ ShaderCalls[k].light = i}

\* Light i is a term of the spectrum the hit shader of call j received directly.
ContributesDirectly(j, i) ==
    \E n \in DOMAIN ShaderCalls[j].spectrum_after :
        /\ ShaderCalls[j].spectrum_after[n].light = i
        /\ ShaderCalls[j].spectrum_after[n].via = << ShaderCalls[j].aabb >>

\* C20: a shadow ray never runs the hit shader and has no rays submitted for
\* it; its hit flag after submit_ray is true exactly if some box is
\* intersected at a distance t with 0 < t <= max_hit_distance; and at a hit
\* on a box that is not metallic one shadow ray is submitted for each light,
\* and the light is added to the received spectrum exactly if that shadow
\* ray's hit flag is false.
C20_ShadowRay ==
    /\ \A j \in DOMAIN ShaderCalls :
           ShaderCalls[j].kind = "shadow" =>
               /\ ShaderCalls[j].shader # "hit_shader"
               /\ ChildrenOf(j) = {}
               /\ ShaderCalls[j].hit <=> BlockedWithinReach(ShaderCalls[j].ray)
    /\ \A j \in HitShaderCalls \ MetallicHits :
           \A i \in DOMAIN sh_uniforms.lights :
               /\ Cardinality(ShadowRaysFor(j, i)) = 1
               /\ \A k \in ShadowRaysFor(j, i) :
                      /\ ShaderCalls[k].ray.max_hit_distance
                             = magnitude(VSub(sh_uniforms.lights[i].position,
                                              ShaderCalls[k].ray.origin))
                      /\ (i \in ShaderCalls[j].lights_added) <=> ~ShaderCalls[k].hit
                      /\ ContributesDirectly(j, i) <=> ~ShaderCalls[k].hit

\* A hit on a diffuse box in a scene of two lights: the shadow ray to the
\* first light is blocked and the light is not added; the shadow ray to the
\* second meets a box only beyond the light, its hit flag stays false and the
\* light is added.
C20_Witness ==
    \E j \in HitShaderCalls \ MetallicHits :
        \E k1 \in ShadowRaysFor(j, 1), k2 \in ShadowRaysFor(j, 2) :
            /\ ShaderCalls[k1].hit
            /\ ~ShaderCalls[k2].hit
            /\ ShaderCalls[k2].aabb # 0
            /\ ShaderCalls[j].lights_added = {2}

\* The boxes submit_ray pushes for the ray of call j, and the t of box k.
PushedFor(j) ==
    {k \in DOMAIN sh_uniforms.aabbs : Pushed(ShaderCalls[j].ray, sh_uniforms.aabbs[k]).some}

DistanceTo(j, k) == Pushed(ShaderCalls[j].ray, sh_uniforms.aabbs[k]).v

\* C21: for a ray that is not a shadow ray the hit shader runs on the box
\* with the smallest t > 0 of the boxes that pass both intersection tests,
\* on the first of them in the list where several have that t; where no box
\* has a t > 0 the miss shader runs and leaves the ray, not hit, with the
\* spectrum of zeros.
C21_NearestFirstInList ==
    \A j \in DOMAIN ShaderCalls :
        ShaderCalls[j].kind # "shadow" =>
            /\ PushedFor(j) = {} =>
                   /\ ShaderCalls[j].shader = "miss_shader"
                   /\ ShaderCalls[j].aabb = 0
                   /\ ~ShaderCalls[j].hit
                   /\ ShaderCalls[j].spectrum_after = new_equal_size_empty_spectrum
            /\ PushedFor(j) # {} =>
                   /\ ShaderCalls[j].shader = "hit_shader"
                   /\ ShaderCalls[j].hit
                   /\ ShaderCalls[j].aabb \in PushedFor(j)
                   /\ \A k \in PushedFor(j) :
                          /\ QLeq(DistanceTo(j, ShaderCalls[j].aabb), DistanceTo(j, k))
                          /\ DistanceTo(j, k) = DistanceTo(j, ShaderCalls[j].aabb) =>
                                 ShaderCalls[j].aabb <= k

\* Two boxes of different materials are met at the same distance and the
\* first of the list is shaded; and in the same run a later ray meets no box
\* and the miss shader runs.
C21_Witness ==
    /\ \E j \in DOMAIN ShaderCalls :
           /\ ShaderCalls[j].kind # "shadow"
           /\ PushedFor(j) = {1, 2}
           /\ DistanceTo(j, 1) = DistanceTo(j, 2)
           /\ sh_uniforms.aabbs[1].metallicness # sh_uniforms.aabbs[2].metallicness
           /\ ShaderCalls[j].aabb = 1
    /\ \E j \in DOMAIN ShaderCalls :
           /\ ShaderCalls[j].kind # "shadow"
           /\ PushedFor(j) = {}
           /\ ShaderCalls[j].shader = "miss_shader"

(***************************************************************************)
(* Claims about the colour of a wavelength, over SpecFunctions.            *)
(***************************************************************************)
\* The index of the table entry at or below the wavelength w.
EntryBelow(w) == AsUsize(QDiv(QSub(w, Frac(380, 1)), Frac(5, 1)))

\* f = (w - w0) / 5 for the wavelength w0 of the entry at or below w.
FractionAbove(w) == QDiv(QSub(w, Frac(380 + 5 * EntryBelow(w), 1)), Frac(5, 1))

\* C22: wavelength_to_XYZ returns (0, 0, 0) outside [380, 780], the table
\* entry for a multiple of 5 nm, and between the entries at w0 and w0 + 5
\* entry(w0) * (1 - f) + entry(w0 + 5) * f with f = (w - w0) / 5.
C22_XYZLinearInterpolation ==
    fn_call.op = "wavelength_to_XYZ" =>
        IF ~(QLeq(Frac(380, 1), fn_call.wavelength) /\ QLeq(fn_call.wavelength, Frac(780, 1)))
        THEN fn_result.xyz = << QZero, QZero, QZero >>
        ELSE IF FractionAbove(fn_call.wavelength) = QZero
        THEN fn_result.xyz = TableEntry(EntryBelow(fn_call.wavelength))
        ELSE \A c \in 1 .. 3 :
                fn_result.xyz[c] =
                    QAdd(QMul(TableEntry(EntryBelow(fn_call.wavelength))[c],
                              QSub(QOne, FractionAbove(fn_call.wavelength))),
                         QMul(TableEntry(EntryBelow(fn_call.wavelength) + 1)[c],
                              FractionAbove(fn_call.wavelength)))

(***************************************************************************)
(* The scene of the UI (main.rs): the spectra list, the selected spectrum, *)
(* the objects and lights that refer to spectra, and the uniforms that     *)
(* dispatch_render builds from them. A sample is held in thousandths. An   *)
(* Rc<RefCell<UISpectrum>> is the id of the UISpectrum; the spectra in     *)
(* reach of a render are those of the list (check_render_legality).        *)
(* Indices are those of the code, counted from 0.                          *)
(***************************************************************************)
\* 1.0 as a sample, a factor or a multiplier
SampleOne == 1000

VISIBLE_LIGHT_WAVELENGTH_LOWER_BOUND == 380
VISIBLE_LIGHT_WAVELENGTH_UPPER_BOUND == 780
NBR_OF_SPECTRUM_SAMPLES_DEFAULT == 32

\* UISpectrumType; Custom carries no factor.
Custom == [tag |-> "Custom", factor |-> 0]
PlainReflective(factor) == [tag |-> "PlainReflective", factor |-> factor]
Solar(factor) == [tag |-> "Solar", factor |-> factor]

\* Spectrum::new_temperature_spectrum: every element of the array is
\* black_body_radiation(wavelength, temp) * multiplier. The radiance is not
\* computed; it is taken to be 1.0 at every wavelength.
new_temperature_spectrum(lowest_wavelength, highest_wavelength, temp_in_kelvin, nbr_of_samples, multiplier) ==
    Spectrum_new_from_list([i \in 0 .. NBR_OF_SAMPLES_MAX - 1 |-> multiplier],
                           lowest_wavelength, highest_wavelength, nbr_of_samples)

\* Spectrum::new_sunlight_spectrum: the black body of 6500 K.
new_sunlight_spectrum(lowest_wavelength, highest_wavelength, nbr_of_samples, multiplier) ==
    new_temperature_spectrum(lowest_wavelength, highest_wavelength, 6500, nbr_of_samples, multiplier)

\* Spectrum::min1
min1(s) ==
    [s EXCEPT !.intensities =
        [i \in 0 .. NBR_OF_SAMPLES_MAX - 1 |->
            IF i < s.nbr_of_samples /\ @[i] > SampleOne THEN SampleOne ELSE @[i]]]

\* MulAssign<f32> for Spectrum, the factor in thousandths
ScaleSpectrum(s, factor) ==
    [s EXCEPT !.intensities =
        [i \in 0 .. NBR_OF_SAMPLES_MAX - 1 |->
            IF i < s.nbr_of_samples THEN (@[i] * factor) \div SampleOne ELSE @[i]]]

\* The spectrum a non-custom UISpectrumType generates, with the bounds of
\* the UI (main.rs:767-806 and 1108-1128).
Generated(spectrum_type, nbr_of_samples) ==
    IF spectrum_type.tag = "PlainReflective"
    THEN new_singular_reflectance_factor(VISIBLE_LIGHT_WAVELENGTH_LOWER_BOUND,
             VISIBLE_LIGHT_WAVELENGTH_UPPER_BOUND, nbr_of_samples, spectrum_type.factor)
    ELSE new_sunlight_spectrum(VISIBLE_LIGHT_WAVELENGTH_LOWER_BOUND,
             VISIBLE_LIGHT_WAVELENGTH_UPPER_BOUND, nbr_of_samples, spectrum_type.factor)

\* UISpectrum::new
UISpectrum_new(id, spectrum_type, spectrum_effect_type, s) ==
    [id |-> id, spectrum_type |-> spectrum_type,
     spectrum_effect_type |-> spectrum_effect_type, spectrum |-> s]

\* The largest of the first nbr_of_samples samples, folded from -inf.
MaxSample(s) ==
    CHOOSE m \in {s.intensities[i] : i \in 0 .. s.nbr_of_samples - 1} :
        \A i \in 0 .. s.nbr_of_samples - 1 : s.intensities[i] <= m

\* App::update_selected_spectrum: spectra[index] panics past the end of the
\* list. selected_id, the id of the spectrum copied, is history.
update_selected_spectrum(list, index) ==
    IF index >= Len(list) THEN [res |-> "Panic"]
    ELSE [res |-> "Ok",
          selected |-> Some([selected_spectrum |-> index,
                             max |-> MaxSample(At(list, index).spectrum),
                             spectrum |-> At(list, index).spectrum,
                             spectrum_effect_type |-> At(list, index).spectrum_effect_type,
                             ui_spectrum_type |-> At(list, index).spectrum_type,
                             selected_id |-> At(list, index).id])]

\* The loop of App::update_all_spectrum_sample_sizes over one UISpectrum.
Resized(ui_spectrum, nbr_of_samples) ==
    IF ui_spectrum.spectrum_type.tag = "Custom"
    THEN [ui_spectrum EXCEPT !.spectrum = resample(@, nbr_of_samples).s]
    ELSE [ui_spectrum EXCEPT !.spectrum = Generated(ui_spectrum.spectrum_type, nbr_of_samples)]

\* App::update_all_spectrum_sample_sizes: the list afterwards, the selection
\* afterwards, and whether resample or the indexing of the selection panicked.
update_all_spectrum_sample_sizes(list, selected, nbr_of_samples) ==
    IF \E k \in 1 .. Len(list) :
          /\ list[k].spectrum_type.tag = "Custom"
          /\ resample(list[k].spectrum, nbr_of_samples).res = "Panic"
    THEN [res |-> "Panic"]
    ELSE IF ~selected.some
    THEN [res |-> "Ok", spectra |-> [k \in 1 .. Len(list) |-> Resized(list[k], nbr_of_samples)],
          selected |-> selected]
    ELSE IF selected.v.selected_spectrum >= Len(list) THEN [res |-> "Panic"]
    ELSE [res |-> "Ok", spectra |-> [k \in 1 .. Len(list) |-> Resized(list[k], nbr_of_samples)],
          selected |-> update_selected_spectrum(
                           [k \in 1 .. Len(list) |-> Resized(list[k], nbr_of_samples)],
                           selected.v.selected_spectrum).selected]

\* Vec::contains(&rc) with PartialEq for UISpectrum, which compares ids.
Contains(list, id) == \E k \in 1 .. Len(list) : list[k].id = id

\* value.spectrum.borrow(): the UISpectrum an Rc of the list points to.
Borrow(list, id) == list[CHOOSE k \in 1 .. Len(list) : list[k].id = id]

\* App::check_lights_legality
check_lights_legality == \A k \in 1 .. Len(ui_lights) : Contains(spectra, ui_lights[k].spectrum)

\* App::check_objects_legality
check_objects_legality == \A k \in 1 .. Len(ui_objects) : Contains(spectra, ui_objects[k].spectrum)

\* spectra_ok of App::check_render_legality
spectra_ok(list, ui_sample_nbr) ==
    \A k \in 1 .. Len(list) : list[k].spectrum.nbr_of_samples = ui_sample_nbr

\* App::check_render_legality over the scene. currently_rendering is true
\* while the one render thread this model follows runs.
scene_render_legality(list) ==
    /\ check_lights_legality
    /\ check_objects_legality
    /\ spectra_ok(list, ui_scene.spectrum_number_of_samples)
    /\ scene_render.pc # "running"

\* From<&UISpectrum> for Spectrum (spectrum.rs:479): a copy of the spectrum,
\* with min1 applied when the UISpectrum is Reflective. No conversion of
\* dispatch_render goes through it.
Spectrum_from(ui_spectrum) ==
    IF ui_spectrum.spectrum_effect_type = "Reflective"
    THEN min1(ui_spectrum.spectrum)
    ELSE ui_spectrum.spectrum

\* From<&UIObject> for Aabb (shader.rs:164): the spectrum of the UISpectrum
\* is copied as it is. declared, the effect type of that UISpectrum, is
\* history.
Aabb_from(list, value) ==
    [pos |-> value.pos, metallicness |-> value.metallicness,
     reflective_spectrum |-> Borrow(list, value.spectrum).spectrum,
     declared |-> Borrow(list, value.spectrum).spectrum_effect_type]

\* From<&UILight> for Light (shader.rs:196)
Light_from(list, value) ==
    [position |-> value.pos, spectrum |-> Borrow(list, value.spectrum).spectrum]

\* iter().filter(|e| !e.hidden): the elements not hidden, in their order.
RECURSIVE Shown(_)
Shown(list) ==
    IF list = << >> THEN << >>
    ELSE IF Head(list).hidden THEN Shown(Tail(list))
    ELSE << Head(list) >> \o Shown(Tail(list))

\* example_spectrum of dispatch_render, with the default sample count in
\* the place of the one of the UI.
example_spectrum_DefaultCount(nbr_of_samples) ==
    new_singular_reflectance_factor(VISIBLE_LIGHT_WAVELENGTH_LOWER_BOUND,
        VISIBLE_LIGHT_WAVELENGTH_UPPER_BOUND, NBR_OF_SPECTRUM_SAMPLES_DEFAULT, 0)

\* example_spectrum of dispatch_render (main.rs:1300)
example_spectrum(nbr_of_samples) ==
    new_singular_reflectance_factor(VISIBLE_LIGHT_WAVELENGTH_LOWER_BOUND,
        VISIBLE_LIGHT_WAVELENGTH_UPPER_BOUND, nbr_of_samples, 0)

\* The RaytracingUniforms dispatch_render builds (main.rs:1307) from the
\* spectra list as update_all_spectrum_sample_sizes left it.
BuildUniforms(list) ==
    [aabbs |-> [k \in 1 .. Len(Shown(ui_objects)) |-> Aabb_from(list, Shown(ui_objects)[k])],
     lights |-> [k \in 1 .. Len(Shown(ui_lights)) |-> Light_from(list, Shown(ui_lights)[k])],
     camera |-> ui_scene.ui_camera,
     frame_id |-> 0,
     intended_frames_amount |-> ui_scene.nbr_of_iterations,
     example_spectrum |-> example_spectrum(ui_scene.spectrum_number_of_samples)]

\* The uniforms apply_shader2 is given for one frame (main.rs:1250), built
\* again from the scene as it is when the frame starts.
FrameUniforms_FromScene(uniforms, frame_id) ==
    [BuildUniforms(spectra) EXCEPT !.frame_id = frame_id]

\* uniforms.frame_id = frame_number; Arc::new(uniforms.clone())
FrameUniforms(uniforms, frame_id) == [uniforms EXCEPT !.frame_id = frame_id]

(***************************************************************************)
(* SpecScene: the UI edits the scene, the start button dispatches one      *)
(* render, and the render thread takes its uniforms frame by frame.  Each  *)
(* action is one click or entry together with the after-UI action it sets  *)
(* (App::update, main.rs:2411).  The assertion of dispatch_render on the   *)
(* camera vectors belongs to SpecRender; the camera here is one number.    *)
(***************************************************************************)
MaxSpectra == 3
MaxElements == 2
MaxEdits == 2
MaxSceneFrames == 2

\* The brightness factors entered and the adjustments applied.
Factors == {2 * SampleOne}

\* The types the combo box offers (main.rs:755), of those modelled.
OfferedTypes == {Custom, Solar(SampleOne), PlainReflective(SampleOne)}

EffectTypes == {"Emissive", "Reflective"}

ElementKinds == {"object", "light"}

Elements(kind) == IF kind = "object" THEN ui_objects ELSE ui_lights

\* The UI thread has not panicked and the model may make another edit.
CanEdit == scene_call.res # "Panic" /\ scene_edits < MaxEdits

Spectrum_indices == 0 .. Len(spectra) - 1

\* What an edit leaves behind: the call, its outcome and the count.
Edited(op, index, res) ==
    /\ scene_call' = [op |-> op, index |-> index, res |-> res]
    /\ scene_edits' = scene_edits + 1
    /\ UNCHANGED notSceneVars

\* The edit put new_spectra in the place of the list and called
\* update_spectrum, or handled UpdateSelectedSpectrum(index) afterwards.
AfterUpdateAll(op, index, new_spectra, nbr_of_samples) ==
    /\ \E updated \in {update_all_spectrum_sample_sizes(new_spectra, selected_spectrum, nbr_of_samples)} :
          IF updated.res = "Panic"
          THEN /\ Edited(op, index, "Panic")
               /\ UNCHANGED << spectra, selected_spectrum >>
          ELSE /\ Edited(op, index, "Ok")
               /\ spectra' = updated.spectra
               /\ selected_spectrum' = updated.selected

AfterUpdateSelected(op, index, new_spectra) ==
    /\ spectra' = new_spectra
    /\ selected_spectrum' = update_selected_spectrum(new_spectra, index).selected
    /\ Edited(op, index, "Ok")

\* "Add new Spectrum" (main.rs:2307)
AddSpectrum ==
    /\ CanEdit
    /\ Len(spectra) < MaxSpectra
    /\ spectra' = Append(spectra,
          UISpectrum_new(id_counter, Solar(1), "Emissive",
              new_sunlight_spectrum(VISIBLE_LIGHT_WAVELENGTH_LOWER_BOUND,
                  VISIBLE_LIGHT_WAVELENGTH_UPPER_BOUND, ui_scene.spectrum_number_of_samples, 1)))
    /\ id_counter' = id_counter + 1
    /\ Edited("AddSpectrum", Len(spectra), "Ok")
    /\ UNCHANGED << selected_spectrum, ui_objects, ui_lights, ui_scene, scene_render >>

\* A click on the frame of spectrum index (main.rs:2337)
ClickSpectrum ==
    /\ CanEdit
    /\ \E index \in Spectrum_indices :
          /\ selected_spectrum' = update_selected_spectrum(spectra, index).selected
          /\ Edited("ClickSpectrum", index, "Ok")
    /\ UNCHANGED << spectra, ui_objects, ui_lights, ui_scene, id_counter, scene_render >>

\* Another type chosen for spectrum index (main.rs:765-807)
ChangeSpectrumType ==
    /\ CanEdit
    /\ \E index \in Spectrum_indices, selected_type \in OfferedTypes :
          /\ selected_type # At(spectra, index).spectrum_type
          /\ AfterUpdateSelected("ChangeSpectrumType", index,
                [spectra EXCEPT ![index + 1] =
                    [@ EXCEPT !.spectrum_type = selected_type,
                              !.spectrum = IF selected_type.tag = "Custom" THEN @
                                           ELSE Generated(selected_type,
                                                    ui_scene.spectrum_number_of_samples)]])
    /\ UNCHANGED << ui_objects, ui_lights, ui_scene, id_counter, scene_render >>

\* Another behaviour chosen for spectrum index (main.rs:821-824)
ChangeEffectType ==
    /\ CanEdit
    /\ \E index \in Spectrum_indices, selected_type \in EffectTypes :
          /\ selected_type # At(spectra, index).spectrum_effect_type
          /\ AfterUpdateSelected("ChangeEffectType", index,
                [spectra EXCEPT ![index + 1].spectrum_effect_type = selected_type])
    /\ UNCHANGED << ui_objects, ui_lights, ui_scene, id_counter, scene_render >>

\* display_factor: a factor >= 0 other than the present one is entered for
\* spectrum index, and update_spectrum is called (main.rs:878).
ChangeFactor ==
    /\ CanEdit
    /\ \E index \in Spectrum_indices, new_factor \in Factors :
          /\ At(spectra, index).spectrum_type.tag # "Custom"
          /\ new_factor # At(spectra, index).spectrum_type.factor
          /\ new_factor >= 0
          /\ AfterUpdateAll("ChangeFactor", index,
                [spectra EXCEPT ![index + 1].spectrum_type.factor = new_factor],
                ui_scene.spectrum_number_of_samples)
    /\ UNCHANGED << ui_objects, ui_lights, ui_scene, id_counter, scene_render >>

\* "Apply" of the adjustment of a custom spectrum (main.rs:868)
ApplyAdjustment ==
    /\ CanEdit
    /\ \E index \in Spectrum_indices, factor \in Factors :
          /\ At(spectra, index).spectrum_type.tag = "Custom"
          /\ AfterUpdateAll("ApplyAdjustment", index,
                [spectra EXCEPT ![index + 1].spectrum = ScaleSpectrum(@, factor)],
                ui_scene.spectrum_number_of_samples)
    /\ UNCHANGED << ui_objects, ui_lights, ui_scene, id_counter, scene_render >>

\* The upper end of the sliders of the selected spectrum (main.rs:1014)
slider_max(selected) ==
    IF selected.spectrum_effect_type = "Emissive"
    THEN (IF selected.max * 2 > SampleOne \div 100 THEN selected.max * 2 ELSE SampleOne \div 100)
    ELSE SampleOne

\* A slider of the selected spectrum, a custom one, is moved (main.rs:1027):
\* only the copy held by the selection changes.
MoveSlider ==
    /\ CanEdit
    /\ selected_spectrum.some
    /\ selected_spectrum.v.ui_spectrum_type.tag = "Custom"
    /\ \E spectral_radiance \in {0, slider_max(selected_spectrum.v)} :
          /\ spectral_radiance # selected_spectrum.v.spectrum.intensities[0]
          /\ selected_spectrum' =
                [selected_spectrum EXCEPT !.v.spectrum.intensities[0] = spectral_radiance]
    /\ Edited("MoveSlider", selected_spectrum.v.selected_spectrum, "Ok")
    /\ UNCHANGED << spectra, ui_objects, ui_lights, ui_scene, id_counter, scene_render >>

\* "Save" and AfterUIActions::SaveSelectedSpectrum(index): the selection is
\* taken, then spectra[index] is indexed and edited.
SaveSelectedSpectrum ==
    /\ CanEdit
    /\ selected_spectrum.some
    /\ selected_spectrum' = None
    /\ IF selected_spectrum.v.selected_spectrum >= Len(spectra)
       THEN /\ Edited("SaveSelectedSpectrum", selected_spectrum.v.selected_spectrum, "Panic")
            /\ UNCHANGED spectra
       ELSE /\ Edited("SaveSelectedSpectrum", selected_spectrum.v.selected_spectrum, "Ok")
            /\ spectra' = [spectra EXCEPT ![selected_spectrum.v.selected_spectrum + 1].spectrum =
                              selected_spectrum.v.spectrum]
    /\ UNCHANGED << ui_objects, ui_lights, ui_scene, id_counter, scene_render >>

\* "Delete this Spectrum" and AfterUIActions::DeleteSpectrum(index)
DeleteSpectrum ==
    /\ CanEdit
    /\ \E index \in Spectrum_indices :
          /\ spectra' = Remove(spectra, index)
          /\ selected_spectrum' =
                IF selected_spectrum.some /\ selected_spectrum.v.selected_spectrum = index
                THEN None ELSE selected_spectrum
          /\ Edited("DeleteSpectrum", index, "Ok")
    /\ UNCHANGED << ui_objects, ui_lights, ui_scene, id_counter, scene_render >>

\* "Copy" and AfterUIActions::CopySpectrum(index): the clone has a new id.
CopySpectrum ==
    /\ CanEdit
    /\ Len(spectra) < MaxSpectra
    /\ \E index \in Spectrum_indices :
          /\ spectra' = Insert(spectra, index + 1, [At(spectra, index) EXCEPT !.id = id_counter])
          /\ Edited("CopySpectrum", index, "Ok")
    /\ id_counter' = id_counter + 1
    /\ UNCHANGED << selected_spectrum, ui_objects, ui_lights, ui_scene, scene_render >>

\* "+" and "-" of the number of samples (main.rs:664-686)
ChangeSampleCount ==
    /\ CanEdit
    /\ \E final_nbr_of_samples \in {ui_scene.spectrum_number_of_samples - 8,
                                    ui_scene.spectrum_number_of_samples + 8} :
          /\ final_nbr_of_samples >= 8
          /\ final_nbr_of_samples <= NBR_OF_SAMPLES_MAX
          /\ ui_scene' = [ui_scene EXCEPT !.spectrum_number_of_samples = final_nbr_of_samples]
          /\ AfterUpdateAll("ChangeSampleCount", final_nbr_of_samples, spectra, final_nbr_of_samples)
    /\ UNCHANGED << ui_objects, ui_lights, id_counter, scene_render >>

\* The objects or the lights become new_elements.
SetElements(kind, new_elements) ==
    /\ ui_objects' = IF kind = "object" THEN new_elements ELSE ui_objects
    /\ ui_lights' = IF kind = "light" THEN new_elements ELSE ui_lights

\* "Hide" and "Show" of a light or an object (main.rs:2251, 2285)
HideElement ==
    /\ CanEdit
    /\ \E kind \in ElementKinds :
       \E index \in 0 .. Len(Elements(kind)) - 1 :
          /\ SetElements(kind, [Elements(kind) EXCEPT ![index + 1].hidden = ~@])
          /\ Edited("HideElement", index, "Ok")
    /\ UNCHANGED << spectra, selected_spectrum, ui_scene, id_counter, scene_render >>

\* AfterUIActions::DeleteLight(index) and DeleteObject(index)
DeleteElement ==
    /\ CanEdit
    /\ \E kind \in ElementKinds :
       \E index \in 0 .. Len(Elements(kind)) - 1 :
          /\ SetElements(kind, Remove(Elements(kind), index))
          /\ Edited("DeleteElement", index, "Ok")
    /\ UNCHANGED << spectra, selected_spectrum, ui_scene, id_counter, scene_render >>

\* AfterUIActions::CopyLight(index) and CopyObject(index)
CopyElement ==
    /\ CanEdit
    /\ \E kind \in ElementKinds :
       \E index \in 0 .. Len(Elements(kind)) - 1 :
          /\ Len(Elements(kind)) < MaxElements
          /\ SetElements(kind, Insert(Elements(kind), index + 1, At(Elements(kind), index)))
          /\ Edited("CopyElement", index, "Ok")
    /\ UNCHANGED << spectra, selected_spectrum, ui_scene, id_counter, scene_render >>

\* Another spectrum of the list chosen for a light or an object
\* (display_combobox_with_spectrum_list).
AssignSpectrum ==
    /\ CanEdit
    /\ \E kind \in ElementKinds :
       \E index \in 0 .. Len(Elements(kind)) - 1, chosen \in Spectrum_indices :
          /\ At(spectra, chosen).id # At(Elements(kind), index).spectrum
          /\ SetElements(kind, [Elements(kind) EXCEPT ![index + 1].spectrum = At(spectra, chosen).id])
          /\ Edited("AssignSpectrum", index, "Ok")
    /\ UNCHANGED << spectra, selected_spectrum, ui_scene, id_counter, scene_render >>

\* The camera is moved, or another number of frames is entered.
ChangeRenderSettings ==
    /\ CanEdit
    /\ \/ ui_scene' = [ui_scene EXCEPT !.ui_camera = 1 - @]
       \/ \E n \in 1 .. MaxSceneFrames :
             /\ n # ui_scene.nbr_of_iterations
             /\ ui_scene' = [ui_scene EXCEPT !.nbr_of_iterations = n]
    /\ Edited("ChangeRenderSettings", 0, "Ok")
    /\ UNCHANGED << spectra, selected_spectrum, ui_objects, ui_lights, id_counter, scene_render >>

\* The render thread dispatch_render spawns, before its first frame.
Spawned(uniforms) ==
    [pc |-> "running", uniforms |-> uniforms, nbr_of_iterations |-> ui_scene.nbr_of_iterations,
     frame_number |-> 0, frames |-> << >>, dispatched |-> uniforms]

\* display_start_render_button, enabled and clicked: App::dispatch_render.
\* The model follows the first render dispatched.
ClickStartRender ==
    /\ scene_call.res # "Panic"
    /\ scene_render.pc = "none"
    /\ scene_render_legality(spectra)
    /\ \E updated \in {update_all_spectrum_sample_sizes(spectra, selected_spectrum,
                                                       ui_scene.spectrum_number_of_samples)} :
          IF updated.res = "Panic"
          THEN /\ scene_call' = [op |-> "dispatch_render", index |-> 0, res |-> "Panic"]
               /\ UNCHANGED << spectra, selected_spectrum, scene_render >>
          ELSE /\ spectra' = updated.spectra
               /\ selected_spectrum' = updated.selected
               /\ IF ~scene_render_legality(updated.spectra)
                  THEN /\ scene_call' = [op |-> "dispatch_render", index |-> 0, res |-> "Illegal"]
                       /\ UNCHANGED scene_render
                  ELSE /\ scene_call' = [op |-> "dispatch_render", index |-> 0, res |-> "Ok"]
                       /\ scene_render' = Spawned(BuildUniforms(updated.spectra))
    /\ UNCHANGED notSceneVars
    /\ UNCHANGED << ui_objects, ui_lights, ui_scene, id_counter, scene_edits >>

\* One pass of the for loop of App::render: the frame is given a clone of
\* the uniforms with its frame_id.
SceneRenderFrame ==
    /\ scene_call.res # "Panic"
    /\ scene_render.pc = "running"
    /\ scene_render.frame_number < scene_render.nbr_of_iterations
    /\ scene_render' =
          [scene_render EXCEPT
              !.uniforms = FrameUniforms(@, scene_render.frame_number),
              !.frames = Append(@, FrameUniforms(scene_render.uniforms, scene_render.frame_number)),
              !.frame_number = @ + 1]
    /\ UNCHANGED notSceneVars
    /\ UNCHANGED << spectra, selected_spectrum, ui_objects, ui_lights, ui_scene,
                    id_counter, scene_call, scene_edits >>

\* The loop of App::render is left and currently_rendering is cleared.
SceneRenderReturn ==
    /\ scene_call.res # "Panic"
    /\ scene_render.pc = "running"
    /\ scene_render.frame_number = scene_render.nbr_of_iterations
    /\ scene_render' = [scene_render EXCEPT !.pc = "returned"]
    /\ UNCHANGED notSceneVars
    /\ UNCHANGED << spectra, selected_spectrum, ui_objects, ui_lights, ui_scene,
                    id_counter, scene_call, scene_edits >>

\* The scene of UIFields::default (main.rs:1531) with one light, one
\* object and the two spectra they refer to.
InitScene ==
    /\ spectra = << UISpectrum_new(1, Solar(1), "Emissive",
                        Generated(Solar(1), NBR_OF_SPECTRUM_SAMPLES_DEFAULT)),
                    UISpectrum_new(2, PlainReflective(SampleOne), "Reflective",
                        Generated(PlainReflective(SampleOne), NBR_OF_SPECTRUM_SAMPLES_DEFAULT)) >>
    /\ selected_spectrum = None
    /\ ui_objects = << [pos |-> 0, metallicness |-> TRUE, hidden |-> FALSE, spectrum |-> 2] >>
    /\ ui_lights = << [pos |-> 2, hidden |-> FALSE, spectrum |-> 1] >>
    /\ ui_scene = [spectrum_number_of_samples |-> NBR_OF_SPECTRUM_SAMPLES_DEFAULT,
                   nbr_of_iterations |-> MaxSceneFrames, ui_camera |-> 0]
    /\ id_counter = 3
    /\ scene_render = [pc |-> "none"]
    /\ scene_call = [op |-> "none", index |-> 0, res |-> "none"]
    /\ scene_edits = 0
    /\ RenderIdle
    /\ ImageIdle
    /\ SpectrumIdle
    /\ FunctionsIdle
    /\ ShaderIdle

SpectraEdits ==
    \/ AddSpectrum
    \/ ClickSpectrum
    \/ ChangeSpectrumType
    \/ ChangeEffectType
    \/ ChangeFactor
    \/ ApplyAdjustment
    \/ MoveSlider
    \/ SaveSelectedSpectrum
    \/ DeleteSpectrum
    \/ CopySpectrum
    \/ ChangeSampleCount

ElementEdits == HideElement \/ DeleteElement \/ CopyElement \/ AssignSpectrum \/ ChangeRenderSettings

NextScene == SpectraEdits \/ ElementEdits \/ ClickStartRender \/ SceneRenderFrame \/ SceneRenderReturn

SpecScene == InitScene /\ [][NextScene]_vars

(***************************************************************************)
(* Claims on the scene and the uniforms made from it.                      *)
(***************************************************************************)
\* The box of the dispatched uniforms at k reflects more than it receives
\* at one of its samples.
Amplifies(k) ==
    \E i \in 0 .. scene_render.dispatched.aabbs[k].reflective_spectrum.nbr_of_samples - 1 :
        scene_render.dispatched.aabbs[k].reflective_spectrum.intensities[i] > SampleOne

\* C23: in the uniforms dispatch_render has built, the reflective spectrum
\* of every primitive whose UI spectrum is declared Reflective is the one
\* min1 leaves: no sample of it is above 1.
C23_ReflectiveClampedInUniforms ==
    scene_render.pc # "none" =>
        \A k \in DOMAIN scene_render.dispatched.aabbs :
            scene_render.dispatched.aabbs[k].declared = "Reflective" =>
                /\ ~Amplifies(k)
                /\ scene_render.dispatched.aabbs[k].reflective_spectrum =
                      min1(scene_render.dispatched.aabbs[k].reflective_spectrum)

\* The operands (self, rhs) of the += of the hit shader on the dispatched
\* uniforms. self is received_spectrum, made by new_equal_size_empty_spectrum
\* from the spectrum a ray carries, which is example_spectrum for a camera
\* ray (shader.rs:267) and for every ray made from one (364, 383, 403).
\* rhs is the spectrum of a child ray, which miss_shader makes from the
\* carried spectrum and the * of hit_shader returns with the shape of the
\* box's spectrum, or the spectrum of a light, divided and scaled by numbers.
AddOperands ==
    {<< scene_render.dispatched.example_spectrum, scene_render.dispatched.example_spectrum >>}
    \cup {<< scene_render.dispatched.example_spectrum,
             scene_render.dispatched.aabbs[k].reflective_spectrum >> :
            k \in DOMAIN scene_render.dispatched.aabbs}
    \cup {<< scene_render.dispatched.example_spectrum,
             scene_render.dispatched.lights[k].spectrum >> :
            k \in DOMAIN scene_render.dispatched.lights}

\* The operands of &aabb.reflective_spectrum * &received_spectrum
\* (shader.rs:412).
MulOperands ==
    {<< scene_render.dispatched.aabbs[k].reflective_spectrum,
        scene_render.dispatched.example_spectrum >> :
       k \in DOMAIN scene_render.dispatched.aabbs}

\* C24: once dispatch_render has built uniforms, the operands of every
\* spectrum operation of the shaders have one sample count and one range
\* of wavelengths, those of example_spectrum, and no operation panics in
\* its assertions.
C24_ShaderOperandsMatchTemplate ==
    scene_render.pc # "none" =>
        /\ \A pair \in AddOperands :
              /\ add_assign(pair[1], pair[2]).res = "Ok"
              /\ pair[1].nbr_of_samples = pair[2].nbr_of_samples
              /\ pair[1].spectrum_type = pair[2].spectrum_type
        /\ \A pair \in MulOperands :
              /\ mul(pair[1], pair[2]).res = "Ok"
              /\ pair[1].nbr_of_samples = pair[2].nbr_of_samples
              /\ pair[1].spectrum_type = pair[2].spectrum_type

\* A render was dispatched with a sample count other than the default one,
\* an object whose custom spectrum was resampled, and a light.
C24_Witness ==
    /\ scene_render.pc # "none"
    /\ scene_render.dispatched.example_spectrum.nbr_of_samples # NBR_OF_SPECTRUM_SAMPLES_DEFAULT
    /\ scene_render.dispatched.aabbs # << >>
    /\ scene_render.dispatched.lights # << >>
    /\ \E k \in 1 .. Len(spectra) :
          /\ spectra[k].spectrum_type.tag = "Custom"
          /\ \E j \in 1 .. Len(ui_objects) : ui_objects[j].spectrum = spectra[k].id

\* C25: every frame of a render is given the uniforms dispatch_render
\* built, with its own frame_id and nothing else changed, whatever the UI
\* has done to the scene since.
C25_UniformsFixedForRender ==
    scene_render.pc # "none" =>
        \A f \in DOMAIN scene_render.frames :
            /\ scene_render.frames[f] = [scene_render.dispatched EXCEPT !.frame_id = f - 1]
            /\ scene_render.frames[f].aabbs = scene_render.dispatched.aabbs
            /\ scene_render.frames[f].lights = scene_render.dispatched.lights
            /\ scene_render.frames[f].camera = scene_render.dispatched.camera
            /\ scene_render.frames[f].example_spectrum = scene_render.dispatched.example_spectrum

\* A render of two frames has returned; since its dispatch the object it
\* renders was deleted and the sample count of the UI was changed.
C25_Witness ==
    /\ scene_render.pc = "returned"
    /\ Len(scene_render.frames) >= 2
    /\ scene_render.dispatched.aabbs # << >>
    /\ ui_objects = << >>
    /\ ui_scene.spectrum_number_of_samples #
          scene_render.dispatched.example_spectrum.nbr_of_samples

\* C30: while a spectrum is selected, the index the selection holds is
\* inside the list and the spectrum at that index is the one that was
\* selected.
C30_SelectionTracksSpectrum ==
    selected_spectrum.some =>
        /\ selected_spectrum.v.selected_spectrum < Len(spectra)
        /\ At(spectra, selected_spectrum.v.selected_spectrum).id = selected_spectrum.v.selected_id

(***************************************************************************)
(* Claims on reduce_action_list.                                           *)
(***************************************************************************)
\* The actions of the list that are no FrameUpdate, in their order.
RECURSIVE OtherActions(_)
OtherActions(action_list) ==
    IF action_list = << >> THEN << >>
    ELSE IF Head(action_list).tag = "FrameUpdate" THEN OtherActions(Tail(action_list))
    ELSE << Head(action_list) >> \o OtherActions(Tail(action_list))

\* The FrameUpdates of the list, in their order.
RECURSIVE FrameUpdates(_)
FrameUpdates(action_list) ==
    IF action_list = << >> THEN << >>
    ELSE IF Head(action_list).tag # "FrameUpdate" THEN FrameUpdates(Tail(action_list))
    ELSE << Head(action_list) >> \o FrameUpdates(Tail(action_list))

\* The list without the elements before place that are FrameUpdates.
RECURSIVE DropFrameUpdatesBefore(_, _)
DropFrameUpdatesBefore(action_list, place) ==
    IF action_list = << >> THEN << >>
    ELSE IF place > 1 /\ Head(action_list).tag = "FrameUpdate"
    THEN DropFrameUpdatesBefore(Tail(action_list), place - 1)
    ELSE << Head(action_list) >> \o DropFrameUpdatesBefore(Tail(action_list), place - 1)

\* The place of the last FrameUpdate of the list, 0 if it has none.
LastFrameUpdate(action_list) ==
    IF FrameUpdatesIn(action_list) = 0 THEN 0
    ELSE CHOOSE i \in 1 .. Len(action_list) :
            /\ action_list[i].tag = "FrameUpdate"
            /\ \A j \in i + 1 .. Len(action_list) : action_list[j].tag # "FrameUpdate"

\* C26: reduce_action_list leaves at most one FrameUpdate, the last one of
\* its input, at its place among the other actions, which are all kept in
\* their order; a list with no or one FrameUpdate is left as it is.
C26_ReduceKeepsLastFrameUpdate ==
    fn_call.op = "reduce_action_list" =>
        /\ FrameUpdatesIn(fn_result.action_list) <= 1
        /\ FrameUpdatesIn(fn_call.action_list) >= 1 =>
              FrameUpdates(fn_result.action_list) =
                  << fn_call.action_list[LastFrameUpdate(fn_call.action_list)] >>
        /\ OtherActions(fn_result.action_list) = OtherActions(fn_call.action_list)
        /\ fn_result.action_list =
              DropFrameUpdatesBefore(fn_call.action_list, LastFrameUpdate(fn_call.action_list))
        /\ FrameUpdatesIn(fn_call.action_list) <= 1 => fn_result.action_list = fn_call.action_list

\* A list with two FrameUpdates among other actions, the last of them
\* neither first nor last in the list, was reduced.
C26_Witness ==
    /\ fn_call.op = "reduce_action_list"
    /\ Len(fn_call.action_list) = 4
    /\ FrameUpdatesIn(fn_call.action_list) = 2
    /\ fn_call.action_list[1].tag = "FrameUpdate"
    /\ fn_call.action_list[2].tag = "RenderingProgressUpdate"
    /\ fn_call.action_list[3].tag = "FrameUpdate"
    /\ fn_call.action_list[4].tag = "DestroySender"
    /\ fn_result.action_list = << RenderingProgressUpdate(2), FrameUpdate(3), DestroySender >>

(***************************************************************************)
(* Claims on the UI thread and the render thread (SpecRender).             *)
(***************************************************************************)
\* The render thread dispatch_render spawned has not yet cleared
\* currently_rendering at the end of render.
RenderInProgress == render_pc \in {"begin", "submit", "collect", "publish", "check", "finish"}

\* C27: from the spawning of the render thread until the render has
\* finished, check_render_legality is false, so the start button cannot
\* dispatch a second render.
C27_NoSecondRenderWhileRendering == RenderInProgress => ~check_render_legality

\* C28: a click on the enabled Abort button never panics: the send of
\* AbortRender succeeds whenever app_to_render_channel is Some.
C28_AbortSendNeverPanics == [][ClickAbort => ~ui_crashed']_vars

\* The blends of the frames 0 .. n - 1, each with the weight of its frame.
BlendsOfFrames(n) == [j \in 1 .. n |-> [task_frame |-> j - 1, weight_den |-> j]]

\* C29: whatever the order in which the rows of a frame arrive, a row that
\* has arrived has been blended into its own y with the weight of the
\* frame and no other row has changed; the image after the frame is the
\* same for every order.
C29_ImageIndependentOfRowOrder ==
    render_pc \in {"submit", "collect", "publish", "check"} =>
        \A y \in Rows : \A x \in Cols :
            image_float[y][x] =
                BlendsOfFrames(IF << frame_number, y >> \in received
                               THEN frame_number + 1 ELSE frame_number)

\* In the second frame the last row has arrived before the first.
C29_Witness ==
    /\ render_pc = "collect"
    /\ ui_values.height = 2
    /\ ui_values.width = 2
    /\ frame_number = 1
    /\ << 1, 1 >> \in received
    /\ << 1, 0 >> \notin received
    /\ image_float[1][0] = BlendsOfFrames(2)
    /\ image_float[0][0] = BlendsOfFrames(1)

====
